---- MODULE Spec2Model ----
(***************************************************************************)
(* Attendance system (src/src/App.tsx): the daily token service, the       *)
(* member check-in flow and the audit comment trail, as state machines     *)
(* over the remote store (tables users, attendances, daily_token) and the  *)
(* browser tabs that call it.  A handler runs up to its next await in one  *)
(* step; a store call is one step, in which the store evaluates the call   *)
(* and the awaiting handler resumes with the reply.                        *)
(***************************************************************************)
EXTENDS Integers, Sequences, FiniteSets, TLC

----------------------------------------------------------------------------
(* Bounds of the model *)

MaxCalls == 2
MaxSubmits == 2
MaxAudits == 2
MaxFaults == 1
MaxNow == 2
MaxChanges == 2
MaxEdits == 2
MaxRecords == 2
TicksPerDay == 2

(* Program constants *)

CodeBase == 1000
CodeSpan == 9000
MinPasswordLength == 4
PasswordLength == 6

----------------------------------------------------------------------------
(* Pure helpers *)

Null == "null"

\* Math.random(): a fraction <<n, d>> with 0 <= n/d < 1.
RandomSamples == {<<0, 1>>, <<8999, 9000>>}

DigitChar(d) == <<"0", "1", "2", "3", "4", "5", "6", "7", "8", "9">>[d + 1]

RECURSIVE NumToString(_)
\* Number.prototype.toString() of a non-negative integer.
NumToString(n) ==
    IF n < 10 THEN DigitChar(n)
    ELSE NumToString(n \div 10) \o DigitChar(n % 10)

\* A code drawn from 0..9999 and not padded: Math.floor(Math.random() * 10000).toString()
GenerateCode_FromZero(r) == NumToString(((CodeBase + CodeSpan) * r[1]) \div r[2])

\* Math.floor(1000 + Math.random() * 9000).toString()
GenerateCode(r) == NumToString(CodeBase + ((CodeSpan * r[1]) \div r[2]))

\* new Date().toLocaleDateString('id-ID'): the calendar day of the clock.
LocaleDateString(t) == t \div TicksPerDay

\* new Date().toLocaleTimeString('id-ID'): the time of day of the clock.
LocaleTimeString(t) == t % TicksPerDay

\* JavaScript's a || b on values that are Null, "" or truthy.
OrElse(a, b) == IF a = Null \/ a = "" THEN b ELSE a

\* Array.prototype.find on the elements that satisfy the test: the first of
\* them, or `none`.
First(matching, none) == IF matching = <<>> THEN none ELSE matching[1]

\* currentUser === null
NoUser == [nip |-> Null]

\* The users the store holds.
SeedUsers ==
    << [nip |-> "A001", name |-> "Adi", password |-> "admin1", role |-> "admin"],
       [nip |-> "A002", name |-> "Budi", password |-> "admin2", role |-> "admin"],
       [nip |-> "M001", name |-> "Jane", password |-> "p@ssw0", role |-> "member"] >>

\* What a user types into the login form: NIP and password, right or wrong.
LoginsOf(user) == {<<user.nip, user.password>>, <<user.nip, "wrong">>}

\* What is typed into the token input: four characters.
TokenInputs == {"1000", "9999"}

\* What is typed into the comment input, character by character: nothing,
\* two spaces, or a word.
CommentTexts == {<<>>, <<" ", " ">>, <<"O", "K">>}

\* What the check-in form holds when 'Kirim Absen' is clicked.
Positions == {"", "Staff"}
Descriptions == {"", "Patrol"}
Photos == {"", "data:image/jpeg;base64,AAAA"}

\* A JavaScript number that holds a coordinate: a count of tenths of a degree,
\* or NaN.
Degrees(tenths) == [nan |-> FALSE, tenths |-> tenths]
NaN == [nan |-> TRUE, tenths |-> 0]

\* Number.isFinite
IsFinite(x) == ~x.nan

\* What the geolocation provider answers in pos.coords: latitude and longitude
\* are numbers, and nothing in the form looks at them.
GeoReadings ==
    {[lat |-> Degrees(-62), lng |-> Degrees(1068)],
     [lat |-> Degrees(910), lng |-> Degrees(1068)],
     [lat |-> NaN, lng |-> Degrees(1068)]}

\* The readings of a provider that answers the place of the office.
OfficeReadings == {[lat |-> Degrees(-62), lng |-> Degrees(1068)]}

----------------------------------------------------------------------------
(* State *)

VARIABLES
    now,            \* the wall clock, in ticks
    \* the remote store
    daily_token,    \* table daily_token: rows [date, code], in insertion order
    dateUnique,     \* whether the store's schema makes daily_token.date a unique key
    db_users,       \* table users: rows [nip, name, password, role]
    db_attendances, \* table attendances: rows in order of created_at
    \* AttendanceSystem, one instance per browser tab
    currentPage,    \* 'landing' | 'member' | 'admin'
    currentUser,    \* the logged-in user, or NoUser
    loginError,     \* LoginPage's error message is shown
    users,          \* the users last fetched
    attendances,    \* the attendance records last fetched
    loading,        \* the full-screen overlay of fetchData
    fetch,          \* the fetchData call in flight: [pc, usersData]
    \* getDailyToken calls
    tok,            \* per call: tab, caller, pc, today, newCode, absent, ret, input,
                    \* outcome for the caller, live flags
    ncalls,         \* number of getDailyToken calls started
    dailyToken,     \* AdminDashboard state: the code shown
    \* MemberDashboard and its pages, per tab
    view,           \* 'menu' | 'input_token' | 'attend' | 'history' | 'change_password'
    token_ok,       \* sessionStorage holds token_ok = '1'
    entry,          \* TokenEntryPage state: [error, loading]
    formLoading,    \* AttendanceForm state: loading
    opener,         \* the getDailyToken call whose success opened the form on screen
    alert,          \* the message of the last alert() of the check-in form
    subs,           \* per submit call: tab, pc, opener, user, fields, location, date,
                    \* time, live flags
    nsubs,          \* number of submit calls that passed the completeness check
    \* DailyReportView, per tab
    selectedDate,   \* the date whose records are listed, or NoDate
    selectedRecord, \* the id of the record shown for audit, or NoRecord
    commentInput,   \* the value of the comment input of the record shown
    audits,         \* per handleAudit call: tab, recordId, read, updated, status
    naudits,        \* number of handleAudit calls that sent a write
    \* AdminDashboard, per tab
    adminView,      \* 'dashboard' | 'change_password'
    adminTab,       \* 'daily' | 'users'
    \* ChangePasswordPage
    cp,             \* per tab, the page's state: [error, loading]
    pw,             \* per handleSubmit call that passed the checks: tab, page, user,
                    \* oldPass, newPass, pc, live flags
    npw,            \* number of such calls
    \* UserManagementView
    um,             \* per tab, the view's state: [addMode, genPass]
    mgmt,           \* per handleAdd, handleDelete or handleImport call that reached the
                    \* store: kind, tab, pc and what the call holds
    nmgmt,          \* number of such calls
    \* history
    overlapped,     \* records on which a handleAudit call was made while another was in flight
    appended,       \* per record: the comments of the successful calls, in order
    writes,         \* per record: the handleAudit calls whose write succeeded, in order
    issued,         \* every [date, code] a getDailyToken call returned
    raced,          \* calls whose select found no row while another such call awaited its insert
    faults,         \* number of store calls that failed
    \* the browser
    download        \* per tab, the file last downloaded: [name, href], or NoDownload

storeVars == <<daily_token, dateUnique, db_users, db_attendances>>
sessionVars == <<currentPage, currentUser, loginError>>
cacheVars == <<users, attendances, loading, fetch>>
tokVars == <<tok, ncalls, dailyToken>>
tokHist == <<issued, raced>>
memberVars == <<view, token_ok, entry, formLoading, opener, alert>>
subVars == <<subs, nsubs>>
reportVars == <<selectedDate, selectedRecord, commentInput>>
auditVars == <<audits, naudits>>
auditHist == <<overlapped, appended, writes>>
adminVars == <<adminView, adminTab, um>>
pwVars == <<cp, pw, npw>>
mgmtVars == <<mgmt, nmgmt>>
dirVars == <<adminVars, pwVars, mgmtVars>>

vars == <<now, storeVars, sessionVars, cacheVars, tokVars, tokHist, memberVars, subVars,
          reportVars, auditVars, auditHist, dirVars, faults, download>>

\* The browser tabs.
Tabs == {1, 2}
Calls == 1..MaxCalls
Submits == 1..MaxSubmits
Audits == 1..MaxAudits
Changes == 1..MaxChanges
Edits == 1..MaxEdits

NoDate == -1
NoRecord == 0

NoFetch == [pc |-> "idle", usersData |-> <<>>]

NoCall == [tab |-> 0, caller |-> "", pc |-> "new", today |-> 0, newCode |-> "",
           absent |-> FALSE, ret |-> Null, input |-> "", outcome |-> "",
           pageLive |-> FALSE, dashLive |-> FALSE]

NoOpener == 0

NoEntry == [error |-> FALSE, loading |-> FALSE]

NoSubmit == [tab |-> 0, pc |-> "new", opener |-> NoOpener, user |-> NoUser, position |-> "", description |-> "",
             photo |-> "", location |-> [lat |-> Degrees(0), lng |-> Degrees(0)],
             date |-> 0, time |-> 0,
             formLive |-> FALSE, dashLive |-> FALSE]

NoAudit == [tab |-> 0, recordId |-> NoRecord, read |-> <<>>, updated |-> <<>>,
            status |-> "new", viewLive |-> FALSE]

\* No file downloaded yet.
NoDownload == [name |-> "", href |-> <<>>, data |-> <<>>]

\* ChangePasswordPage as it mounts: error '', loading false.
NoError == [error |-> "", loading |-> FALSE]

NoChange == [tab |-> 0, page |-> "", pc |-> "new", user |-> NoUser, oldPass |-> "",
             newPass |-> "", pageLive |-> FALSE, dashLive |-> FALSE]

\* UserManagementView as it mounts: addMode false, genPass ''.
NoUserForm == [addMode |-> FALSE, genPass |-> ""]

NoEdit == [kind |-> "", tab |-> 0, pc |-> "new", user |-> NoUser, nip |-> "",
           lines |-> <<>>, i |-> 0, count |-> 0, results |-> <<>>, viewLive |-> FALSE]

----------------------------------------------------------------------------
(* The store *)

\* A store call may fail (StoreFailure); the model counts the failures.
Outcome(fail) ==
    /\ fail => faults < MaxFaults
    /\ faults' = IF fail THEN faults + 1 ELSE faults

\* .from('daily_token').select('code').eq('date', today)
TokenRows(table, today) == SelectSeq(table, LAMBDA row : row.date = today)

\* .single(): data is the row when exactly one row matches and the call did not fail.
SingleCode(table, today, fail) ==
    IF ~fail /\ Len(TokenRows(table, today)) = 1
    THEN TokenRows(table, today)[1].code
    ELSE Null

\* .from('daily_token').insert([{date, code}]): the table after the call.
InsertToken(table, row, unique, fail) ==
    IF fail \/ (unique /\ Len(TokenRows(table, row.date)) > 0)
    THEN table
    ELSE Append(table, row)

\* DatabaseHelper.addAttendance: .from('attendances').insert([{...}]), the table
\* after the call.  The store assigns id and created_at.
InsertAttendance(table, record, fail) ==
    IF fail THEN table
    ELSE Append(table,
                [id |-> Len(table) + 1,
                 created_at |-> Len(table) + 1,
                 user_id |-> record.userId,
                 user_name |-> record.userName,
                 date |-> record.date,
                 time |-> record.time,
                 position |-> record.position,
                 photo |-> record.photo,
                 photo_url |-> Null,
                 description |-> record.description,
                 location_lat |-> record.location.lat,
                 location_lng |-> record.location.lng,
                 comments |-> record.comments])

\* A store that appends the last comment sent to the comments it holds.
UpdateComments_AtomicAppend(table, recordId, comments, fail) ==
    IF fail THEN table
    ELSE [i \in 1..Len(table) |->
            IF table[i].id = recordId
            THEN [table[i] EXCEPT !.comments = Append(@, comments[Len(comments)])]
            ELSE table[i]]

\* DatabaseHelper.addComment: .from('attendances').update({ comments }).eq('id',
\* recordId), the table after the call; the whole comments value is replaced.
UpdateComments(table, recordId, comments, fail) ==
    IF fail THEN table
    ELSE [i \in 1..Len(table) |->
            IF table[i].id = recordId
            THEN [table[i] EXCEPT !.comments = comments]
            ELSE table[i]]

\* The comments the store holds for a record.
StoredComments(table, recordId) ==
    First(SelectSeq(table, LAMBDA row : row.id = recordId), [comments |-> <<>>]).comments

----------------------------------------------------------------------------
(* DatabaseHelper: the reads of fetchData *)

\* DatabaseHelper.getUsers: the rows, or [] when the select failed.
GetUsers(table, fail) == IF fail THEN <<>> ELSE table

\* getAttendances taking the photo from photo_url alone.
RecordOfRow_PhotoUrlOnly(item) ==
    [id |-> item.id,
     userId |-> item.user_id,
     userName |-> item.user_name,
     date |-> item.date,
     time |-> item.time,
     position |-> item.position,
     photo |-> item.photo_url,
     description |-> item.description,
     location |-> [lat |-> item.location_lat, lng |-> item.location_lng],
     comments |-> IF item.comments = Null THEN <<>> ELSE item.comments,
     editHistory |-> <<>>]

\* The record getAttendances builds from a row.
RecordOfRow(item) ==
    [id |-> item.id,
     userId |-> item.user_id,
     userName |-> item.user_name,
     date |-> item.date,
     time |-> item.time,
     position |-> item.position,
     photo |-> OrElse(item.photo_url, item.photo),
     description |-> item.description,
     location |-> [lat |-> item.location_lat, lng |-> item.location_lng],
     comments |-> IF item.comments = Null THEN <<>> ELSE item.comments,
     editHistory |-> <<>>]

\* .order('created_at', { ascending: false })
OrderDescending(table) == [i \in 1..Len(table) |-> table[Len(table) + 1 - i]]

\* DatabaseHelper.getAttendances: the records, newest first, or [] when the select failed.
GetAttendances(table, fail) ==
    IF fail THEN <<>>
    ELSE [i \in 1..Len(table) |-> RecordOfRow(OrderDescending(table)[i])]

----------------------------------------------------------------------------
(* AttendanceSystem.fetchData *)

\* fetchData() up to its first await: setLoading(true), getUsers is sent.  Of
\* fetchData calls that overlap in a tab, the one started last is followed.
FetchData(t) ==
    /\ fetch' = [fetch EXCEPT ![t] = [pc |-> "users", usersData |-> <<>>]]
    /\ loading' = [loading EXCEPT ![t] = TRUE]

\* getUsers is answered; getAttendances is sent.
FetchUsers(t) ==
    /\ fetch[t].pc = "users"
    /\ \E fail \in BOOLEAN :
        /\ Outcome(fail)
        /\ fetch' = [fetch EXCEPT ![t] = [pc |-> "attendances",
                                          usersData |-> GetUsers(db_users, fail)]]
    /\ UNCHANGED <<dirVars, now, download, storeVars, sessionVars, users, attendances, loading, tokVars,
                   tokHist, memberVars, subVars, reportVars, auditVars,
                   auditHist>>

\* getAttendances is answered: setUsers, setAttendances, setLoading(false).
FetchAttendances(t) ==
    /\ fetch[t].pc = "attendances"
    /\ \E fail \in BOOLEAN :
        /\ Outcome(fail)
        /\ attendances' = [attendances EXCEPT ![t] = GetAttendances(db_attendances, fail)]
    /\ users' = [users EXCEPT ![t] = fetch[t].usersData]
    /\ loading' = [loading EXCEPT ![t] = FALSE]
    /\ fetch' = [fetch EXCEPT ![t] = NoFetch]
    /\ UNCHANGED <<dirVars, now, download, storeVars, sessionVars, tokVars, tokHist, memberVars, subVars,
                   reportVars, auditVars, auditHist>>

----------------------------------------------------------------------------
(* MemberDashboard: the view and the components it mounts *)

\* The TokenEntryPage of the tab unmounts: its pending calls no longer reach it.
LeaveTokenEntry(calls, t) ==
    [c \in Calls |-> IF calls[c].tab = t THEN [calls[c] EXCEPT !.pageLive = FALSE]
                     ELSE calls[c]]

\* The AttendanceForm of the tab unmounts: its pending submits no longer reach it.
LeaveForm(submits, t) ==
    [s \in Submits |-> IF submits[s].tab = t THEN [submits[s] EXCEPT !.formLive = FALSE]
                       ELSE submits[s]]

\* The calls after setView(to): a view's component unmounts when the view changes.
TokAfter(calls, t, to) ==
    IF view[t] = "input_token" /\ to # "input_token" THEN LeaveTokenEntry(calls, t)
    ELSE calls

\* The submits after setView(to).
SubsAfter(submits, t, to) ==
    IF view[t] = "attend" /\ to # "attend" THEN LeaveForm(submits, t) ELSE submits

\* TokenEntryPage's state after setView(to): a page that mounts starts afresh.
EntryAfter(t, to) == IF to = view[t] THEN entry ELSE [entry EXCEPT ![t] = NoEntry]

\* AttendanceForm's loading after setView(to).
FormLoadingAfter(t, to) ==
    IF to = view[t] THEN formLoading ELSE [formLoading EXCEPT ![t] = FALSE]

\* The call that opened the form on screen, after setView(to).
OpenerAfter(t, to, c) ==
    IF to = view[t] THEN opener
    ELSE [opener EXCEPT ![t] = IF to = "attend" THEN c ELSE NoOpener]

\* The ChangePasswordPage of the tab unmounts: its pending calls no longer
\* reach it.
LeavePasswordPage(changes, t) ==
    [k \in Changes |-> IF changes[k].tab = t THEN [changes[k] EXCEPT !.pageLive = FALSE]
                       ELSE changes[k]]

\* ChangePasswordPage's state after the member dashboard's setView(to).
CpAfter(t, to) == IF to = view[t] THEN cp ELSE [cp EXCEPT ![t] = NoError]

\* The password changes after the member dashboard's setView(to).
PwAfter(changes, t, to) ==
    IF currentPage[t] = "member" /\ view[t] = "change_password" /\ to # "change_password"
    THEN LeavePasswordPage(changes, t)
    ELSE changes

\* AttendanceForm's mount effect: the view in which a form that mounts ends up,
\* onBack() when the session flag is not '1'.
MountAttendanceForm(tokenOk) == IF tokenOk THEN "attend" ELSE "menu"

\* MemberDashboard.handleTokenSuccess, called by the validation c: the flag is
\* set in any case, the view only of a dashboard that is still mounted.
HandleTokenSuccess(t, c) ==
    /\ token_ok' = [token_ok EXCEPT ![t] = TRUE]
    /\ IF tok[c].dashLive
       THEN /\ view' = [view EXCEPT ![t] = MountAttendanceForm(token_ok'[t])]
            /\ entry' = EntryAfter(t, view'[t])
            /\ formLoading' = FormLoadingAfter(t, view'[t])
            /\ opener' = OpenerAfter(t, view'[t], c)
            /\ cp' = CpAfter(t, view'[t])
            /\ pw' = PwAfter(pw, t, view'[t])
       ELSE UNCHANGED <<view, entry, formLoading, opener, cp, pw>>

\* A validation that accepts whatever is typed.
Validate_AcceptsAny(input, validToken) == TRUE

\* TokenEntryPage.handleSubmit once getDailyToken resolved with validToken.
Validate(input, validToken) == input = validToken

\* The rest of TokenEntryPage.handleSubmit.
HandleSubmitResume(c, validToken) ==
    IF Validate(tok[c].input, validToken)
    THEN HandleTokenSuccess(tok[c].tab, c)
    ELSE /\ entry' = IF tok[c].pageLive
                     THEN [entry EXCEPT ![tok[c].tab] = [error |-> TRUE, loading |-> FALSE]]
                     ELSE entry
         /\ UNCHANGED <<view, token_ok, formLoading, opener, cp, pw>>

----------------------------------------------------------------------------
(* DatabaseHelper.getDailyToken *)

\* The call record of a getDailyToken call that `caller` starts in tab t.
StartCall(t, caller, input) ==
    [NoCall EXCEPT !.tab = t, !.caller = caller, !.pc = "select",
                   !.today = LocaleDateString(now), !.input = input,
                   !.pageLive = TRUE, !.dashLive = TRUE]

\* .then(setDailyToken) of AdminDashboard's effect: nothing is set once the
\* dashboard is unmounted.
SetDailyToken(c, code) ==
    dailyToken' = IF tok[c].dashLive
                  THEN [dailyToken EXCEPT ![tok[c].tab] = code]
                  ELSE dailyToken

\* What the resolved call meant to its caller.
OutcomeOf(c, code) ==
    IF tok[c].caller # "TokenEntryPage" THEN "shown"
    ELSE IF ~Validate(tok[c].input, code) THEN "rejected"
    ELSE IF tok[c].dashLive THEN "unlocked"
    ELSE "dropped"

\* The calls once call c has resolved with `code` and its caller has resumed:
\* of a call that is over, the record keeps who called, for which day, with
\* which input, what it returned and what came of it.
Resolved(c, code) ==
    LET done == [tok EXCEPT ![c] = [NoCall EXCEPT !.tab = tok[c].tab,
                                                  !.caller = tok[c].caller,
                                                  !.pc = "done",
                                                  !.today = tok[c].today,
                                                  !.input = tok[c].input,
                                                  !.ret = code,
                                                  !.outcome = OutcomeOf(c, code),
                                                  !.dashLive = tok[c].dashLive]]
    IN  IF OutcomeOf(c, code) = "unlocked"
        THEN TokAfter(done, tok[c].tab, "attend")
        ELSE done

\* The caller's continuation once getDailyToken resolves with `code`.
Return(c, code) ==
    /\ issued' = issued \cup {[date |-> tok[c].today, code |-> code]}
    /\ tok' = Resolved(c, code)
    /\ IF tok[c].caller = "TokenEntryPage"
       THEN /\ HandleSubmitResume(c, code)
            /\ UNCHANGED dailyToken
       ELSE /\ SetDailyToken(c, code)
            /\ UNCHANGED <<view, token_ok, entry, formLoading, opener, cp, pw>>

\* The select of getDailyToken is answered: return the stored code, or
\* generate a code and send the insert.
GetDailyTokenSelect(c) ==
    /\ tok[c].pc = "select"
    /\ \E fail \in BOOLEAN :
        /\ Outcome(fail)
        /\ LET data == SingleCode(daily_token, tok[c].today, fail)
               none == ~fail /\ Len(TokenRows(daily_token, tok[c].today)) = 0
               rivals == {q \in Calls : /\ q # c
                                        /\ tok[q].pc = "insert"
                                        /\ tok[q].absent
                                        /\ tok[q].today = tok[c].today}
           IN  IF data # Null
               THEN /\ Return(c, data)
                    /\ UNCHANGED raced
               ELSE /\ \E r \in RandomSamples :
                         tok' = [tok EXCEPT ![c].pc = "insert",
                                            ![c].newCode = GenerateCode(r),
                                            ![c].absent = none]
                    /\ raced' = IF none /\ rivals # {}
                                THEN raced \cup {c} \cup rivals
                                ELSE raced
                    /\ UNCHANGED <<dailyToken, issued, view, token_ok, entry,
                                   formLoading, opener, cp, pw>>
    /\ UNCHANGED <<adminVars, npw, mgmtVars, now, download, storeVars, sessionVars, cacheVars, ncalls, alert, subVars,
                   reportVars, auditVars, auditHist>>

\* The insert of getDailyToken is answered; its result is not looked at and
\* the generated code is returned.
GetDailyTokenInsert(c) ==
    /\ tok[c].pc = "insert"
    /\ \E fail \in BOOLEAN :
        /\ Outcome(fail)
        /\ daily_token' = InsertToken(daily_token,
                                      [date |-> tok[c].today, code |-> tok[c].newCode],
                                      dateUnique, fail)
    /\ Return(c, tok[c].newCode)
    /\ UNCHANGED <<adminVars, npw, mgmtVars, now, download, dateUnique, db_users, db_attendances, sessionVars, cacheVars,
                   ncalls, raced, alert, subVars, reportVars, auditVars, auditHist>>

----------------------------------------------------------------------------
(* AttendanceSystem: pages, login and logout *)

\* No overlay covers the page, so the user can act on it.
Interactive(t) == ~loading[t]

\* AdminDashboard mounts: its effect starts a getDailyToken call.
AdminDashboardMount(t) ==
    /\ ncalls < MaxCalls
    /\ ncalls' = ncalls + 1
    /\ tok' = [tok EXCEPT ![ncalls + 1] = StartCall(t, "AdminDashboard", "")]
    /\ dailyToken' = [dailyToken EXCEPT ![t] = "..."]

\* LandingPage: onSelectRole(role)
SelectRole(t, role) ==
    /\ Interactive(t)
    /\ currentPage[t] = "landing"
    /\ currentPage' = [currentPage EXCEPT ![t] = role]
    /\ loginError' = [loginError EXCEPT ![t] = FALSE]
    /\ IF role = "admin" /\ currentUser[t] # NoUser
       THEN AdminDashboardMount(t)
       ELSE UNCHANGED tokVars
    /\ UNCHANGED <<dirVars, now, download, storeVars, currentUser, cacheVars, tokHist, memberVars,
                   subVars, reportVars, auditVars, auditHist, faults>>

\* LoginPage: onBack
LoginBack(t) ==
    /\ Interactive(t)
    /\ currentPage[t] # "landing" /\ currentUser[t] = NoUser
    /\ currentPage' = [currentPage EXCEPT ![t] = "landing"]
    /\ loginError' = [loginError EXCEPT ![t] = FALSE]
    /\ UNCHANGED <<dirVars, now, download, storeVars, currentUser, cacheVars, tokVars, tokHist, memberVars,
                   subVars, reportVars, auditVars, auditHist, faults>>

\* users.find(u => u.nip === nip && u.password === password && u.role === role)
FindUser(list, nip, password, role) ==
    First(SelectSeq(list, LAMBDA u : u.nip = nip /\ u.password = password /\ u.role = role),
          NoUser)

\* LoginPage.handleLogin
HandleLogin(t, nip, password) ==
    /\ Interactive(t)
    /\ currentPage[t] # "landing" /\ currentUser[t] = NoUser
    /\ LET user == FindUser(users[t], nip, password, currentPage[t])
       IN  IF user = NoUser
           THEN /\ loginError' = [loginError EXCEPT ![t] = TRUE]
                /\ UNCHANGED <<currentUser, tokVars, token_ok>>
           ELSE /\ currentUser' = [currentUser EXCEPT ![t] = user]
                /\ IF currentPage[t] = "member"
                   THEN /\ token_ok' = [token_ok EXCEPT ![t] = FALSE]
                        /\ UNCHANGED tokVars
                   ELSE /\ AdminDashboardMount(t)
                        /\ UNCHANGED token_ok
                /\ loginError' = [loginError EXCEPT ![t] = FALSE]
    /\ UNCHANGED <<dirVars, now, download, storeVars, currentPage, cacheVars, tokHist, view, entry,
                   formLoading, opener, alert, subVars, reportVars, auditVars, auditHist,
                   faults>>

\* The dashboard of the tab unmounts with everything in it: what its pending
\* calls set on it is lost.
Unmounted(calls, t) ==
    [c \in DOMAIN calls |->
        IF calls[c].tab = t THEN [calls[c] EXCEPT !.dashLive = FALSE] ELSE calls[c]]

\* The UserManagementView of the tab unmounts.
LeaveUserManagement(edits, t) ==
    [e \in Edits |-> IF edits[e].tab = t THEN [edits[e] EXCEPT !.viewLive = FALSE]
                     ELSE edits[e]]

\* The DailyReportView of the tab unmounts.
LeaveReport(calls, t) ==
    [a \in Audits |-> IF calls[a].tab = t THEN [calls[a] EXCEPT !.viewLive = FALSE]
                      ELSE calls[a]]

\* AttendanceSystem.handleLogout; the dashboard that unmounts leaves the state
\* a dashboard starts with, and an alert still shown is dismissed by the click.
HandleLogout(t) ==
    /\ Interactive(t)
    /\ currentUser[t] # NoUser
    /\ token_ok' = [token_ok EXCEPT ![t] = FALSE]
    /\ currentUser' = [currentUser EXCEPT ![t] = NoUser]
    /\ currentPage' = [currentPage EXCEPT ![t] = "landing"]
    /\ tok' = Unmounted(LeaveTokenEntry(tok, t), t)
    /\ subs' = Unmounted(LeaveForm(subs, t), t)
    /\ view' = [view EXCEPT ![t] = "menu"]
    /\ entry' = [entry EXCEPT ![t] = NoEntry]
    /\ formLoading' = [formLoading EXCEPT ![t] = FALSE]
    /\ opener' = [opener EXCEPT ![t] = NoOpener]
    /\ selectedDate' = [selectedDate EXCEPT ![t] = NoDate]
    /\ selectedRecord' = [selectedRecord EXCEPT ![t] = NoRecord]
    /\ commentInput' = [commentInput EXCEPT ![t] = <<>>]
    /\ dailyToken' = [dailyToken EXCEPT ![t] = "..."]
    /\ alert' = [alert EXCEPT ![t] = ""]
    /\ adminView' = [adminView EXCEPT ![t] = "dashboard"]
    /\ adminTab' = [adminTab EXCEPT ![t] = "daily"]
    /\ um' = [um EXCEPT ![t] = NoUserForm]
    /\ cp' = [cp EXCEPT ![t] = NoError]
    /\ pw' = Unmounted(LeavePasswordPage(pw, t), t)
    /\ mgmt' = LeaveUserManagement(mgmt, t)
    /\ audits' = LeaveReport(audits, t)
    /\ UNCHANGED <<npw, nmgmt, now, download, storeVars, loginError, cacheVars, ncalls, tokHist, nsubs,
                   naudits, auditHist, faults>>

\* Time passes; every TicksPerDay ticks a new calendar day starts.
Tick ==
    /\ now < MaxNow
    /\ now' = now + 1
    /\ UNCHANGED <<dirVars, download, storeVars, sessionVars, cacheVars, tokVars, tokHist, memberVars,
                   subVars, reportVars, auditVars, auditHist, faults>>

----------------------------------------------------------------------------
(* MemberDashboard: the token entry and the check-in form *)

\* The member dashboard is on screen and no overlay covers it.
MemberShown(t) ==
    /\ Interactive(t)
    /\ currentPage[t] = "member" /\ currentUser[t] # NoUser

\* The buttons that lead from a view to another: the menu's two cards, the
\* header's 'Ganti Password' and each page's onBack.
Reachable(from, to) ==
    \/ from = "menu" /\ to \in {"input_token", "history"}
    \/ from # "change_password" /\ to = "change_password"
    \/ from # "menu" /\ to = "menu"

\* A navigation button is clicked: setView(to)
Navigate(t, to) ==
    /\ MemberShown(t)
    /\ Reachable(view[t], to)
    /\ view' = [view EXCEPT ![t] = to]
    /\ entry' = EntryAfter(t, to)
    /\ formLoading' = FormLoadingAfter(t, to)
    /\ opener' = OpenerAfter(t, to, NoOpener)
    /\ tok' = TokAfter(tok, t, to)
    /\ subs' = SubsAfter(subs, t, to)
    /\ alert' = [alert EXCEPT ![t] = ""]
    /\ cp' = CpAfter(t, to)
    /\ pw' = PwAfter(pw, t, to)
    /\ UNCHANGED <<adminVars, npw, mgmtVars, now, download, storeVars, sessionVars, cacheVars, ncalls,
                   dailyToken, tokHist,
                   token_ok, nsubs, reportVars, auditVars, auditHist, faults>>

\* TokenEntryPage.handleSubmit up to its await: the four characters typed are
\* submitted and getDailyToken is called.
TokenSubmit(t, input) ==
    /\ MemberShown(t)
    /\ view[t] = "input_token"
    /\ ~entry[t].loading
    /\ ncalls < MaxCalls
    /\ ncalls' = ncalls + 1
    /\ tok' = [tok EXCEPT ![ncalls + 1] = StartCall(t, "TokenEntryPage", input)]
    /\ entry' = [entry EXCEPT ![t] = [error |-> FALSE, loading |-> TRUE]]
    /\ alert' = [alert EXCEPT ![t] = ""]
    /\ UNCHANGED <<dirVars, now, download, storeVars, sessionVars, cacheVars, dailyToken, tokHist, view,
                   token_ok, formLoading, opener, subVars, reportVars, auditVars,
                   auditHist, faults>>

\* A completeness check that forgets the photo.
Incomplete_IgnoresPhoto(position, desc, photo) == position = "" \/ desc = ""

\* !position || !desc || !photo
Incomplete(position, desc, photo) == position = "" \/ desc = "" \/ photo = ""

\* The alerts of AttendanceForm.submit.
AlertIncomplete == "Mohon lengkapi data!"
AlertNoGps == "Gagal mendapatkan lokasi GPS."
AlertSent == "Absensi Berhasil Terkirim!"
AlertNotSent == "Gagal mengirim absensi. Cek koneksi."

\* 'Kirim Absen': AttendanceForm.submit up to the geolocation request.
Submit(t, position, desc, photo) ==
    /\ MemberShown(t)
    /\ view[t] = "attend"
    /\ ~formLoading[t]
    /\ IF Incomplete(position, desc, photo)
       THEN /\ alert' = [alert EXCEPT ![t] = AlertIncomplete]
            /\ UNCHANGED <<formLoading, subs, nsubs>>
       ELSE /\ nsubs < MaxSubmits
            /\ nsubs' = nsubs + 1
            /\ formLoading' = [formLoading EXCEPT ![t] = TRUE]
            /\ subs' = [subs EXCEPT ![nsubs + 1] =
                          [NoSubmit EXCEPT !.tab = t, !.pc = "geo", !.opener = opener[t],
                                           !.user = currentUser[t],
                                           !.position = position, !.description = desc,
                                           !.photo = photo,
                                           !.formLive = TRUE, !.dashLive = TRUE]]
            /\ alert' = [alert EXCEPT ![t] = ""]
    /\ UNCHANGED <<dirVars, now, download, storeVars, sessionVars, cacheVars, tokVars, tokHist, view, token_ok,
                   entry, opener, reportVars, auditVars, auditHist, faults>>

\* The AttendanceRecord the geolocation callback passes to addAttendance.
RecordOf(sub) ==
    [id |-> "",
     userId |-> sub.user.nip,
     userName |-> sub.user.name,
     date |-> sub.date,
     time |-> sub.time,
     position |-> sub.position,
     photo |-> sub.photo,
     description |-> sub.description,
     location |-> sub.location,
     comments |-> <<>>,
     editHistory |-> <<>>]

\* A submit that is over, as `pc` says: nothing of it is pending on the form.
Over(sub, pc) == [sub EXCEPT !.pc = pc, !.formLive = FALSE]

\* navigator.geolocation.getCurrentPosition answers: with a position (one of
\* `readings`), the record is built at the present time and addAttendance is
\* sent; without, the error callback runs.
GeoReply(s, readings) ==
    /\ subs[s].pc = "geo"
    /\ \/ \E pos \in readings :
            /\ subs' = [subs EXCEPT ![s].pc = "insert",
                                    ![s].date = LocaleDateString(now),
                                    ![s].time = LocaleTimeString(now),
                                    ![s].location = pos]
            /\ UNCHANGED <<alert, formLoading>>
       \/ /\ subs' = [subs EXCEPT ![s] = Over(subs[s], "nogps")]
          /\ alert' = [alert EXCEPT ![subs[s].tab] = AlertNoGps]
          /\ formLoading' = IF subs[s].formLive
                            THEN [formLoading EXCEPT ![subs[s].tab] = FALSE]
                            ELSE formLoading
    /\ UNCHANGED <<dirVars, now, download, storeVars, sessionVars, cacheVars, tokVars, tokHist, view, token_ok,
                   entry, opener, nsubs, reportVars, auditVars, auditHist, faults>>

\* An onSuccess that refreshes and leaves the flag and the form as they are.
OnSuccess_KeepsUnlock(s) ==
    /\ FetchData(subs[s].tab)
    /\ subs' = [subs EXCEPT ![s] = [Over(subs[s], "ok") EXCEPT !.formLive = subs[s].formLive]]
    /\ UNCHANGED <<token_ok, view, entry, formLoading, opener, tok, cp, pw>>

\* MemberDashboard's onSuccess of the form: onRefresh(), removeItem('token_ok'),
\* setView('menu') on a dashboard that is still mounted.
OnSuccess(s) ==
    LET t == subs[s].tab
    IN  /\ FetchData(t)
        /\ token_ok' = [token_ok EXCEPT ![t] = FALSE]
        /\ IF subs[s].dashLive
           THEN /\ view' = [view EXCEPT ![t] = "menu"]
                /\ entry' = EntryAfter(t, "menu")
                /\ formLoading' = FormLoadingAfter(t, "menu")
                /\ opener' = OpenerAfter(t, "menu", NoOpener)
                /\ tok' = TokAfter(tok, t, "menu")
                /\ subs' = SubsAfter([subs EXCEPT ![s] = Over(subs[s], "ok")], t, "menu")
                /\ cp' = CpAfter(t, "menu")
                /\ pw' = PwAfter(pw, t, "menu")
           ELSE /\ subs' = [subs EXCEPT ![s] = Over(subs[s], "ok")]
                /\ UNCHANGED <<view, entry, formLoading, opener, tok, cp, pw>>

\* DatabaseHelper.addAttendance is answered and the geolocation callback
\* resumes: alert and onSuccess(), or the failure alert; then setLoading(false).
SubmitReply(s) ==
    /\ subs[s].pc = "insert"
    /\ \E fail \in BOOLEAN :
        /\ Outcome(fail)
        /\ db_attendances' = InsertAttendance(db_attendances, RecordOf(subs[s]), fail)
        /\ IF fail
           THEN /\ alert' = [alert EXCEPT ![subs[s].tab] = AlertNotSent]
                /\ subs' = [subs EXCEPT ![s] = Over(subs[s], "fail")]
                /\ formLoading' = IF subs[s].formLive
                                  THEN [formLoading EXCEPT ![subs[s].tab] = FALSE]
                                  ELSE formLoading
                /\ UNCHANGED <<fetch, loading, view, token_ok, entry, opener, tok, cp, pw>>
           ELSE /\ alert' = [alert EXCEPT ![subs[s].tab] = AlertSent]
                /\ OnSuccess(s)
    /\ UNCHANGED <<adminVars, npw, mgmtVars, now, download, daily_token, dateUnique, db_users, sessionVars, users, attendances,
                   ncalls, dailyToken, tokHist, nsubs, reportVars, auditVars, auditHist>>

----------------------------------------------------------------------------
(* DailyReportView: browsing by date and the audit comments *)

\* The admin dashboard is on screen and no overlay covers it.
AdminShown(t) ==
    /\ Interactive(t)
    /\ currentPage[t] = "admin" /\ currentUser[t] # NoUser

\* The admin dashboard with the daily report is on screen.
ReportShown(t) ==
    /\ AdminShown(t)
    /\ adminView[t] = "dashboard" /\ adminTab[t] = "daily"

\* Array.from(new Set(attendances.map(a => a.date)))
UniqueDates(list) == {list[i].date : i \in DOMAIN list}

\* A filter that keeps the records up to the date.
DayRecords_UpTo(list, date) == SelectSeq(list, LAMBDA a : a.date <= date)

\* attendances.filter(a => a.date === selectedDate)
DayRecords(list, date) == SelectSeq(list, LAMBDA a : a.date = date)

\* The count on the card of a date: attendances.filter(a => a.date === date).length
DateCount(list, date) == Len(DayRecords(list, date))

\* A date card is clicked: setSelectedDate(date)
SelectDate(t, date) ==
    /\ ReportShown(t)
    /\ selectedDate[t] = NoDate /\ selectedRecord[t] = NoRecord
    /\ date \in UniqueDates(attendances[t])
    /\ selectedDate' = [selectedDate EXCEPT ![t] = date]
    /\ alert' = [alert EXCEPT ![t] = ""]
    /\ UNCHANGED <<dirVars, now, download, storeVars, sessionVars, cacheVars, tokVars, tokHist, view,
                   token_ok, entry, formLoading, opener, subVars, selectedRecord, commentInput,
                   auditVars, auditHist, faults>>

\* The edit button of a listed record is clicked: setSelectedRecord(record)
SelectRecord(t, i) ==
    /\ ReportShown(t)
    /\ selectedDate[t] # NoDate /\ selectedRecord[t] = NoRecord
    /\ i \in DOMAIN DayRecords(attendances[t], selectedDate[t])
    /\ selectedRecord' = [selectedRecord EXCEPT
                            ![t] = DayRecords(attendances[t], selectedDate[t])[i].id]
    /\ alert' = [alert EXCEPT ![t] = ""]
    /\ UNCHANGED <<dirVars, now, download, storeVars, sessionVars, cacheVars, tokVars, tokHist, view,
                   token_ok, entry, formLoading, opener, subVars, selectedDate, commentInput, auditVars,
                   auditHist, faults>>

\* 'Kembali': setSelectedRecord(null), or setSelectedDate(null) from the list.
ReportBack(t) ==
    /\ ReportShown(t)
    /\ IF selectedRecord[t] # NoRecord
       THEN /\ selectedRecord' = [selectedRecord EXCEPT ![t] = NoRecord]
            /\ commentInput' = [commentInput EXCEPT ![t] = <<>>]
            /\ UNCHANGED selectedDate
       ELSE /\ selectedDate[t] # NoDate
            /\ selectedDate' = [selectedDate EXCEPT ![t] = NoDate]
            /\ UNCHANGED <<selectedRecord, commentInput>>
    /\ alert' = [alert EXCEPT ![t] = ""]
    /\ UNCHANGED <<dirVars, now, download, storeVars, sessionVars, cacheVars, tokVars, tokHist, view,
                   token_ok, entry, formLoading, opener, subVars, auditVars, auditHist,
                   faults>>

\* attendances.find(a => a.id === recordId)
FindRecord(list, recordId) ==
    First(SelectSeq(list, LAMBDA a : a.id = recordId), [id |-> NoRecord])

\* The Comment handleAudit builds.
NewComment(admin, text, t) ==
    [id |-> NumToString(t),
     adminId |-> admin.nip,
     adminName |-> admin.name,
     text |-> text,
     timestamp |-> <<LocaleDateString(t), LocaleTimeString(t)>>]

\* The alerts of handleAudit.
AuditAlerts == [sent |-> "Komentar terkirim.", notSent |-> "Gagal mengirim komentar."]

\* A text is typed into the comment input of the record shown.
TypeComment(t, text) ==
    /\ ReportShown(t)
    /\ selectedRecord[t] # NoRecord
    /\ text # <<>> /\ text # commentInput[t]
    /\ commentInput' = [commentInput EXCEPT ![t] = text]
    /\ alert' = [alert EXCEPT ![t] = ""]
    /\ UNCHANGED <<dirVars, now, download, storeVars, sessionVars, cacheVars, tokVars, tokHist, view,
                   token_ok, entry, formLoading, opener, subVars, selectedDate,
                   selectedRecord, auditVars, auditHist, faults>>

\* The 'Kirim' button: if(input.value) { handleAudit(selectedRecord.id,
\* input.value); input.value = '' }, handleAudit up to its await; without the
\* record in the list, handleAudit returns.
HandleAudit(t) ==
    /\ ReportShown(t)
    /\ selectedRecord[t] # NoRecord
    /\ alert' = [alert EXCEPT ![t] = ""]
    /\ LET text == commentInput[t]
           recordId == selectedRecord[t]
           record == FindRecord(attendances[t], recordId)
           updatedComments == Append(record.comments,
                                     NewComment(currentUser[t], text, now))
       IN  /\ commentInput' = [commentInput EXCEPT ![t] = <<>>]
           /\ IF text # <<>> /\ record.id # NoRecord
              THEN /\ naudits < MaxAudits
                   /\ naudits' = naudits + 1
                   /\ audits' = [audits EXCEPT ![naudits + 1] =
                                   [tab |-> t, recordId |-> recordId,
                                    read |-> record.comments,
                                    updated |-> updatedComments,
                                    status |-> "inflight", viewLive |-> TRUE]]
                   /\ overlapped' =
                        IF \E a \in Audits : /\ audits[a].status = "inflight"
                                             /\ audits[a].recordId = recordId
                        THEN overlapped \cup {recordId}
                        ELSE overlapped
              ELSE UNCHANGED <<naudits, audits, overlapped>>
    /\ UNCHANGED <<dirVars, now, download, storeVars, sessionVars, cacheVars, tokVars, tokHist, view,
                   token_ok, entry, formLoading, opener, subVars, selectedDate,
                   selectedRecord, appended, writes, faults>>

\* DatabaseHelper.addComment is answered and handleAudit resumes: on success
\* onRefresh() and setSelectedRecord(null), on failure only an alert.
AuditReply(a) ==
    /\ audits[a].status = "inflight"
    /\ \E fail \in BOOLEAN :
        /\ Outcome(fail)
        /\ db_attendances' = UpdateComments(db_attendances, audits[a].recordId,
                                            audits[a].updated, fail)
        /\ IF fail
           THEN /\ audits' = [audits EXCEPT ![a].status = "fail"]
                /\ alert' = [alert EXCEPT ![audits[a].tab] = AuditAlerts.notSent]
                /\ UNCHANGED <<fetch, loading, selectedRecord, commentInput, appended,
                               writes>>
           ELSE /\ audits' = [audits EXCEPT ![a].status = "ok"]
                /\ alert' = [alert EXCEPT ![audits[a].tab] = AuditAlerts.sent]
                /\ FetchData(audits[a].tab)
                /\ selectedRecord' = IF audits[a].viewLive
                                     THEN [selectedRecord EXCEPT ![audits[a].tab] = NoRecord]
                                     ELSE selectedRecord
                /\ commentInput' = IF audits[a].viewLive
                                   THEN [commentInput EXCEPT ![audits[a].tab] = <<>>]
                                   ELSE commentInput
                /\ appended' = [appended EXCEPT ![audits[a].recordId] =
                                  Append(@, audits[a].updated[Len(audits[a].updated)])]
                /\ writes' = [writes EXCEPT ![audits[a].recordId] = Append(@, a)]
    /\ UNCHANGED <<dirVars, now, download, daily_token, dateUnique, db_users, sessionVars, users,
                   attendances, tokVars, tokHist, view, token_ok, entry, formLoading,
                   opener, subVars, selectedDate, naudits, overlapped>>

\* AdminDashboard's 'Refresh' button: onRefresh()
Refresh(t) ==
    /\ AdminShown(t)
    /\ FetchData(t)
    /\ alert' = [alert EXCEPT ![t] = ""]
    /\ UNCHANGED <<dirVars, now, download, storeVars, sessionVars, users, attendances, tokVars,
                   tokHist, view, token_ok, entry, formLoading, opener, subVars,
                   reportVars, auditVars, auditHist, faults>>

----------------------------------------------------------------------------
(* DailyReportView: the CSV export of a day's records *)

\* Number.prototype.toString() of a coordinate, as a template literal has it.
NumberText(x) ==
    LET abs == IF x.tenths < 0 THEN -x.tenths ELSE x.tenths
    IN  IF x.nan THEN "NaN"
        ELSE (IF x.tenths < 0 THEN "-" ELSE "")
             \o NumToString(abs \div 10)
             \o (IF abs % 10 = 0 THEN "" ELSE "." \o DigitChar(abs % 10))

\* ['NIP,Nama,Tanggal,Jam,Jabatan,Keterangan,Lokasi'], the text piece by piece.
CsvHeaders ==
    << "NIP", ",", "Nama", ",", "Tanggal", ",", "Jam", ",", "Jabatan", ",", "Keterangan",
       ",", "Lokasi" >>

\* The row of a record: `${d.userId},"${d.userName}",${d.date},${d.time},
\* "${d.position}","${d.description}","${d.location.lat}, ${d.location.lng}"`,
\* the free texts character by character, the rest piece by piece.
CsvRow(d) ==
    <<d.userId, ",", "\"">> \o d.userName
    \o <<"\"", ",", NumToString(d.date), ",", NumToString(d.time), ",", "\"">>
    \o d.position \o <<"\"", ",", "\"">> \o d.description
    \o <<"\"", ",", "\"", NumberText(d.location.lat), ",", " ",
         NumberText(d.location.lng), "\"">>

RECURSIVE JoinLines(_)
\* [headers, ...rows].join("\n")
JoinLines(lines) ==
    IF Len(lines) = 1 THEN lines[1]
    ELSE lines[1] \o <<"\n">> \o JoinLines(Tail(lines))

\* "data:text/csv;charset=utf-8," + [headers, ...rows].join("\n")
CsvContent(data) ==
    <<"data:text/csv;charset=utf-8,">>
    \o JoinLines(<<CsvHeaders>> \o [i \in 1..Len(data) |-> CsvRow(data[i])])

\* The characters of the export that encodeURI escapes, with their escapes;
\* it leaves letters, digits and ; , / ? : @ & = + $ - _ . ! ~ * ' ( ) # as
\* they are.
UriEscapes ==
    << <<" ", "%20">>, <<"\"", "%22">>, <<"\n", "%0A">>, <<"%", "%25">> >>

\* encodeURI(csvContent)
EncodeURI(text) ==
    [i \in 1..Len(text) |->
        IF \E k \in DOMAIN UriEscapes : UriEscapes[k][1] = text[i]
        THEN UriEscapes[CHOOSE k \in DOMAIN UriEscapes : UriEscapes[k][1] = text[i]][2]
        ELSE text[i]]

\* `Absensi_${date.replace(/\//g, '-')}.csv`
FileName(date) == "Absensi_" \o NumToString(date) \o ".csv"

\* 'Excel/CSV' on the list of a day: handleDownloadCSV(selectedDate,
\* dayRecords); the browser saves what the link points to.
HandleDownloadCSV(t) ==
    /\ ReportShown(t)
    /\ selectedDate[t] # NoDate /\ selectedRecord[t] = NoRecord
    /\ LET dayRecords == DayRecords(attendances[t], selectedDate[t])
       IN  download' = [download EXCEPT
                          ![t] = [name |-> FileName(selectedDate[t]),
                                  href |-> EncodeURI(CsvContent(dayRecords)),
                                  data |-> dayRecords]]
    /\ alert' = [alert EXCEPT ![t] = ""]
    /\ UNCHANGED <<dirVars, now, storeVars, sessionVars, cacheVars, tokVars, tokHist, view,
                   token_ok, entry, formLoading, opener, subVars, reportVars, auditVars,
                   auditHist, faults>>

----------------------------------------------------------------------------
(* ChangePasswordPage, of the member and of the admin dashboard *)

\* What is typed into the three password inputs.
PasswordInputs == {"", "abc", "p@ssw0", "s3cret"}

\* The messages of ChangePasswordPage.
CpErrors ==
    [allFields |-> "Semua field harus diisi.",
     wrongOld |-> "Password lama salah.",
     confirm |-> "Konfirmasi password baru tidak cocok.",
     tooShort |-> "Password minimal 4 karakter.",
     update |-> "Gagal mengubah password: ",
     changed |-> "Password berhasil diubah!"]

\* The checks of ChangePasswordPage.handleSubmit, in their order: the error
\* set, or '' when the update is to be sent.  `user` is the session's copy of
\* the user.
CheckPasswords(user, oldPass, newPass, confirmPass) ==
    IF oldPass = "" \/ newPass = "" \/ confirmPass = "" THEN CpErrors.allFields
    ELSE IF oldPass # user.password THEN CpErrors.wrongOld
    ELSE IF newPass # confirmPass THEN CpErrors.confirm
    ELSE IF Len(newPass) < MinPasswordLength THEN CpErrors.tooShort
    ELSE ""

\* DatabaseHelper.updateUserPassword: .from('users').update({ password }).eq('nip',
\* nip), the table after the call.
UpdateUserPassword(table, nip, newPass, fail) ==
    IF fail THEN table
    ELSE [i \in 1..Len(table) |->
            IF table[i].nip = nip THEN [table[i] EXCEPT !.password = newPass]
            ELSE table[i]]

\* The password page is on screen, in the member or in the admin dashboard.
ChangePasswordShown(t) ==
    /\ Interactive(t)
    /\ currentUser[t] # NoUser
    /\ \/ currentPage[t] = "member" /\ view[t] = "change_password"
       \/ currentPage[t] = "admin" /\ adminView[t] = "change_password"

\* 'Simpan Password Baru': ChangePasswordPage.handleSubmit up to its await.
ChangePasswordSubmit(t, oldPass, newPass, confirmPass) ==
    /\ ChangePasswordShown(t)
    /\ ~cp[t].loading
    /\ LET error == CheckPasswords(currentUser[t], oldPass, newPass, confirmPass)
       IN  IF error # ""
           THEN /\ cp' = [cp EXCEPT ![t] = [error |-> error, loading |-> FALSE]]
                /\ UNCHANGED <<pw, npw>>
           ELSE /\ npw < MaxChanges
                /\ npw' = npw + 1
                /\ cp' = [cp EXCEPT ![t] = [error |-> "", loading |-> TRUE]]
                /\ pw' = [pw EXCEPT ![npw + 1] =
                            [tab |-> t, page |-> currentPage[t], pc |-> "update",
                             user |-> currentUser[t], oldPass |-> oldPass,
                             newPass |-> newPass, pageLive |-> TRUE, dashLive |-> TRUE]]
    /\ alert' = [alert EXCEPT ![t] = ""]
    /\ UNCHANGED <<now, download, storeVars, sessionVars, cacheVars, tokVars, tokHist, view, token_ok,
                   entry, formLoading, opener, subVars, reportVars, auditVars, auditHist,
                   adminVars, mgmtVars, faults>>

\* A password change that is over, as `pc` says.
Changed(change, pc) == [change EXCEPT !.pc = pc, !.pageLive = FALSE, !.dashLive = FALSE]

\* The views of the admin dashboard's content unmount: DailyReportView and
\* UserManagementView are rendered under view === 'dashboard', one per tab.
LeaveAdminContent(t) ==
    /\ selectedDate' = [selectedDate EXCEPT ![t] = NoDate]
    /\ selectedRecord' = [selectedRecord EXCEPT ![t] = NoRecord]
    /\ commentInput' = [commentInput EXCEPT ![t] = <<>>]
    /\ um' = [um EXCEPT ![t] = NoUserForm]
    /\ audits' = LeaveReport(audits, t)
    /\ mgmt' = LeaveUserManagement(mgmt, t)

\* The dashboard's onSuccess(newPass) of the password page, for the change k:
\* onUpdateCurrentUser({ ...user, password: newPass }), onRefresh(), and
\* setView('menu') or setView('dashboard') on a dashboard still mounted.  Once
\* the dashboard is unmounted, setCurrentUser still reaches AttendanceSystem:
\* on the admin login page it makes the admin dashboard mount.
OnPasswordChanged(k) ==
    LET t == pw[k].tab
        over == [pw EXCEPT ![k] = Changed(pw[k], "ok")]
    IN  /\ currentUser' = [currentUser EXCEPT
                             ![t] = [pw[k].user EXCEPT !.password = pw[k].newPass]]
        /\ FetchData(t)
        /\ IF pw[k].dashLive /\ pw[k].page = "member"
           THEN /\ view' = [view EXCEPT ![t] = "menu"]
                /\ entry' = EntryAfter(t, "menu")
                /\ formLoading' = FormLoadingAfter(t, "menu")
                /\ opener' = OpenerAfter(t, "menu", NoOpener)
                /\ tok' = TokAfter(tok, t, "menu")
                /\ subs' = SubsAfter(subs, t, "menu")
                /\ cp' = CpAfter(t, "menu")
                /\ pw' = PwAfter(over, t, "menu")
                /\ UNCHANGED <<adminView, ncalls, dailyToken>>
           ELSE IF pw[k].dashLive
           THEN /\ adminView' = [adminView EXCEPT ![t] = "dashboard"]
                /\ cp' = IF adminView[t] = "dashboard" THEN cp
                         ELSE [cp EXCEPT ![t] = NoError]
                /\ pw' = IF adminView[t] = "dashboard" THEN over
                         ELSE LeavePasswordPage(over, t)
                /\ UNCHANGED <<view, entry, formLoading, opener, tok, subs, ncalls,
                               dailyToken>>
           ELSE /\ pw' = over
                /\ IF currentPage[t] = "admin" /\ currentUser[t] = NoUser
                   THEN AdminDashboardMount(t)
                   ELSE UNCHANGED <<tok, ncalls, dailyToken>>
                /\ UNCHANGED <<view, entry, formLoading, opener, subs, cp, adminView>>

\* DatabaseHelper.updateUserPassword is answered and handleSubmit resumes:
\* alert and onSuccess(newPass), or the error; then setLoading(false).
ChangePasswordReply(k) ==
    /\ pw[k].pc = "update"
    /\ \E fail \in BOOLEAN :
        /\ Outcome(fail)
        /\ db_users' = UpdateUserPassword(db_users, pw[k].user.nip, pw[k].newPass, fail)
        /\ IF fail
           THEN /\ pw' = [pw EXCEPT ![k] = Changed(pw[k], "fail")]
                /\ cp' = IF pw[k].pageLive
                         THEN [cp EXCEPT ![pw[k].tab] = [error |-> CpErrors.update,
                                                         loading |-> FALSE]]
                         ELSE cp
                /\ UNCHANGED <<currentUser, fetch, loading, view, entry, formLoading,
                               opener, tokVars, subs, adminView, alert>>
           ELSE /\ alert' = [alert EXCEPT ![pw[k].tab] = CpErrors.changed]
                /\ OnPasswordChanged(k)
    /\ UNCHANGED <<now, download, daily_token, dateUnique, db_attendances, currentPage, loginError,
                   users, attendances, tokHist, token_ok, nsubs,
                   reportVars, auditVars, auditHist, adminTab, um, npw, mgmtVars>>

----------------------------------------------------------------------------
(* UserManagementView: adding, deleting and importing users *)

\* 'abcdefghijklmnopqrstuvwxyz0123456789'
PasswordChars ==
    << "a", "b", "c", "d", "e", "f", "g", "h", "i", "j", "k", "l", "m", "n", "o", "p",
       "q", "r", "s", "t", "u", "v", "w", "x", "y", "z", "0", "1", "2", "3", "4", "5",
       "6", "7", "8", "9" >>

\* The values Math.random() returns in one generatePassword call, each a
\* fraction <<n, d>>.
PasswordSamples ==
    { [i \in 1..PasswordLength |-> <<0, 1>>],
      << <<0, 1>>, <<1, 36>>, <<35, 36>>, <<8999, 9000>>, <<1, 2>>, <<10, 36>> >> }

\* chars.charAt(Math.floor(Math.random() * chars.length))
RandomChar(r) == PasswordChars[((Len(PasswordChars) * r[1]) \div r[2]) + 1]

RECURSIVE PasswordOf(_, _)
\* The password after n rounds of generatePassword's loop.
PasswordOf(rs, n) == IF n = 0 THEN "" ELSE PasswordOf(rs, n - 1) \o RandomChar(rs[n])

\* generatePassword()
GeneratePassword(rs) == PasswordOf(rs, PasswordLength)

\* The users table holds a row with this nip: nip is the table's key.
KeyTaken(table, nip) == \E i \in DOMAIN table : table[i].nip = nip

\* An addUser that writes over the row the table holds for the nip.
AddUser_Upsert(table, user, fail) ==
    IF fail THEN [thrown |-> TRUE, table |-> table]
    ELSE IF KeyTaken(table, user.nip)
    THEN [thrown |-> FALSE,
          table |-> [i \in 1..Len(table) |->
                        IF table[i].nip = user.nip THEN user ELSE table[i]]]
    ELSE [thrown |-> FALSE, table |-> Append(table, user)]

\* DatabaseHelper.addUser: .from('users').insert([user]); whether it throws,
\* and the table after the call.
AddUser(table, user, fail) ==
    IF fail \/ KeyTaken(table, user.nip)
    THEN [thrown |-> TRUE, table |-> table]
    ELSE [thrown |-> FALSE, table |-> Append(table, user)]

\* A deleteUser without its .eq('nip', nip).
DeleteUser_NoFilter(table, nip, fail) == IF fail THEN table ELSE <<>>

\* DatabaseHelper.deleteUser: .from('users').delete().eq('nip', nip), the table
\* after the call.
DeleteUser(table, nip, fail) ==
    IF fail THEN table ELSE SelectSeq(table, LAMBDA u : u.nip # nip)

\* The alerts of UserManagementView.
UmAlerts ==
    [required |-> "Isi NIP dan Nama!",
     added |-> "User berhasil ditambah!",
     notAdded |-> "Gagal tambah user (mungkin NIP duplikat).",
     notDeleted |-> "Gagal hapus user."]

\* `Berhasil import ${count} user.`
ImportAlert(count) == "Berhasil import " \o NumToString(count) \o " user."

\* What is typed into the form of 'Tambah Manual': NIP, name and role.
NewUsers ==
    { [nip |-> "", name |-> "Sari", role |-> "member"],
      [nip |-> "M001", name |-> "Sari", role |-> "member"],
      [nip |-> "M002", name |-> "Sari", role |-> "member"] }

\* The CSV files chosen for import, character by character:
\*   nip,name,role / M001,Jane,member / M002,Sari / (empty line)
\*   nip,name,role / A003, Tono ,Admin
CsvFiles ==
    { << "n", "i", "p", ",", "n", "a", "m", "e", ",", "r", "o", "l", "e", "\n", "M", "0",
       "0", "1", ",", "J", "a", "n", "e", ",", "m", "e", "m", "b", "e", "r", "\n", "M",
       "0", "0", "2", ",", "S", "a", "r", "i", "\n" >>,
      << "n", "i", "p", ",", "n", "a", "m", "e", ",", "r", "o", "l", "e", "\n", "A", "0",
       "0", "3", ",", " ", "T", "o", "n", "o", " ", ",", "A", "d", "m", "i", "n" >> }

RECURSIVE Split(_, _)
\* String.prototype.split(sep), on a text given character by character.
Split(text, sep) ==
    LET at == {i \in 1..Len(text) : text[i] = sep}
        first == CHOOSE i \in at : \A j \in at : i <= j
    IN  IF at = {} THEN <<text>>
        ELSE <<SubSeq(text, 1, first - 1)>> \o Split(SubSeq(text, first + 1, Len(text)), sep)

\* The characters String.prototype.trim() removes.
WhiteSpace == {" ", "\t", "\r", "\n"}

\* String.prototype.trim()
Trim(text) ==
    LET kept == {i \in 1..Len(text) : text[i] \notin WhiteSpace}
        from == CHOOSE i \in kept : \A j \in kept : i <= j
        to == CHOOSE i \in kept : \A j \in kept : j <= i
    IN  IF kept = {} THEN <<>> ELSE SubSeq(text, from, to)

Uppercase ==
    << "A", "B", "C", "D", "E", "F", "G", "H", "I", "J", "K", "L", "M",
       "N", "O", "P", "Q", "R", "S", "T", "U", "V", "W", "X", "Y", "Z" >>

\* String.prototype.toLowerCase()
ToLowerCase(text) ==
    [i \in 1..Len(text) |->
        IF \E k \in 1..Len(Uppercase) : Uppercase[k] = text[i]
        THEN \* the k-th letter, in lower case
             PasswordChars[CHOOSE k \in 1..Len(Uppercase) : Uppercase[k] = text[i]]
        ELSE text[i]]

RECURSIVE Join(_)
\* The string of a text given character by character.
Join(text) == IF text = <<>> THEN "" ELSE text[1] \o Join(Tail(text))

\* lines[i].split(',')
Row(line) == Split(line, ",")

\* The user handleImport builds from a row.
UserOfRow(row, password) ==
    [nip |-> Join(Trim(row[1])),
     name |-> Join(Trim(row[2])),
     role |-> IF Len(row) >= 3 /\ Join(ToLowerCase(Trim(row[3]))) = "admin"
              THEN "admin" ELSE "member",
     password |-> password]

\* The lines of handleImport's loop that hold a row: every line after the
\* first with two columns or more.
RowLines(lines) == {i \in 2..Len(lines) : Len(Row(lines[i])) >= 2}

\* The line at which the loop, at line i, next calls addUser; beyond the last
\* line when it does not.
NextRow(lines, i) ==
    LET rest == {j \in RowLines(lines) : j >= i}
    IN  IF rest = {} THEN Len(lines) + 1 ELSE CHOOSE j \in rest : \A k \in rest : j <= k

\* The user management is on screen.
UsersShown(t) ==
    /\ AdminShown(t)
    /\ adminView[t] = "dashboard" /\ adminTab[t] = "users"

\* 'Laporan Harian' and 'Manajemen User': setTab(to); the view shown unmounts
\* and the other mounts.
SetTab(t, to) ==
    /\ AdminShown(t)
    /\ adminView[t] = "dashboard" /\ to # adminTab[t]
    /\ adminTab' = [adminTab EXCEPT ![t] = to]
    /\ LeaveAdminContent(t)
    /\ alert' = [alert EXCEPT ![t] = ""]
    /\ UNCHANGED <<now, download, storeVars, sessionVars, cacheVars, tokVars, tokHist, view, token_ok,
                   entry, formLoading, opener, subVars, naudits, auditHist, adminView,
                   pwVars, nmgmt, faults>>

\* The admin dashboard's 'Ganti Password' and the password page's onBack:
\* setView(to); what is on screen unmounts.
AdminSetView(t, to) ==
    /\ AdminShown(t)
    /\ to # adminView[t]
    /\ adminView' = [adminView EXCEPT ![t] = to]
    /\ LeaveAdminContent(t)
    /\ cp' = [cp EXCEPT ![t] = NoError]
    /\ pw' = LeavePasswordPage(pw, t)
    /\ alert' = [alert EXCEPT ![t] = ""]
    /\ UNCHANGED <<now, download, storeVars, sessionVars, cacheVars, tokVars, tokHist, view, token_ok,
                   entry, formLoading, opener, subVars, naudits, auditHist, adminTab,
                   npw, nmgmt, faults>>

\* 'Tambah Manual': setAddMode(!addMode)
ToggleAddMode(t) ==
    /\ UsersShown(t)
    /\ um' = [um EXCEPT ![t].addMode = ~um[t].addMode]
    /\ alert' = [alert EXCEPT ![t] = ""]
    /\ UNCHANGED <<now, download, storeVars, sessionVars, cacheVars, tokVars, tokHist, view, token_ok,
                   entry, formLoading, opener, subVars, reportVars, auditVars, auditHist,
                   adminView, adminTab, pwVars, mgmtVars, faults>>

\* The 'X' of the generated password: setGenPass('')
DismissGenPass(t) ==
    /\ UsersShown(t)
    /\ um[t].genPass # ""
    /\ um' = [um EXCEPT ![t].genPass = ""]
    /\ alert' = [alert EXCEPT ![t] = ""]
    /\ UNCHANGED <<now, download, storeVars, sessionVars, cacheVars, tokVars, tokHist, view, token_ok,
                   entry, formLoading, opener, subVars, reportVars, auditVars, auditHist,
                   adminView, adminTab, pwVars, mgmtVars, faults>>

\* 'Simpan User': handleAdd up to its await, with what the form holds.
HandleAdd(t, newUser, rs) ==
    /\ UsersShown(t)
    /\ um[t].addMode
    /\ IF newUser.nip = "" \/ newUser.name = ""
       THEN /\ alert' = [alert EXCEPT ![t] = UmAlerts.required]
            /\ UNCHANGED mgmtVars
       ELSE /\ nmgmt < MaxEdits
            /\ nmgmt' = nmgmt + 1
            /\ mgmt' = [mgmt EXCEPT ![nmgmt + 1] =
                          [NoEdit EXCEPT !.kind = "add", !.tab = t, !.pc = "insert",
                                         !.user = [nip |-> newUser.nip,
                                                   name |-> newUser.name,
                                                   role |-> newUser.role,
                                                   password |-> GeneratePassword(rs)],
                                         !.viewLive = TRUE]]
            /\ alert' = [alert EXCEPT ![t] = ""]
    /\ UNCHANGED <<now, download, storeVars, sessionVars, cacheVars, tokVars, tokHist, view, token_ok,
                   entry, formLoading, opener, subVars, reportVars, auditVars, auditHist,
                   adminVars, pwVars, faults>>

\* addUser is answered and handleAdd resumes: the alert, setGenPass,
\* setAddMode(false) and onRefresh(), or the alert of the catch.
AddReply(e) ==
    /\ mgmt[e].kind = "add" /\ mgmt[e].pc = "insert"
    /\ \E fail \in BOOLEAN :
        LET t == mgmt[e].tab
            added == AddUser(db_users, mgmt[e].user, fail)
        IN  /\ Outcome(fail)
            /\ db_users' = added.table
            /\ IF added.thrown
               THEN /\ mgmt' = [mgmt EXCEPT ![e].pc = "fail", ![e].viewLive = FALSE]
                    /\ alert' = [alert EXCEPT ![t] = UmAlerts.notAdded]
                    /\ UNCHANGED <<um, fetch, loading>>
               ELSE /\ mgmt' = [mgmt EXCEPT ![e].pc = "ok", ![e].viewLive = FALSE]
                    /\ alert' = [alert EXCEPT ![t] = UmAlerts.added]
                    /\ um' = IF mgmt[e].viewLive
                             THEN [um EXCEPT ![t] = [addMode |-> FALSE,
                                                     genPass |-> mgmt[e].user.password]]
                             ELSE um
                    /\ FetchData(t)
    /\ UNCHANGED <<now, download, daily_token, dateUnique, db_attendances, sessionVars, users,
                   attendances, tokVars, tokHist, view, token_ok, entry, formLoading,
                   opener, subVars, reportVars, auditVars, auditHist, adminView, adminTab,
                   pwVars, nmgmt>>

\* The delete button of the i-th user listed: handleDelete(u.nip) up to its
\* await, with the answer to window.confirm.
HandleDelete(t, i, confirmed) ==
    /\ UsersShown(t)
    /\ i \in DOMAIN users[t]
    /\ IF confirmed
       THEN /\ nmgmt < MaxEdits
            /\ nmgmt' = nmgmt + 1
            /\ mgmt' = [mgmt EXCEPT ![nmgmt + 1] =
                          [NoEdit EXCEPT !.kind = "delete", !.tab = t, !.pc = "delete",
                                         !.nip = users[t][i].nip, !.viewLive = TRUE]]
       ELSE UNCHANGED mgmtVars
    /\ alert' = [alert EXCEPT ![t] = ""]
    /\ UNCHANGED <<now, download, storeVars, sessionVars, cacheVars, tokVars, tokHist, view, token_ok,
                   entry, formLoading, opener, subVars, reportVars, auditVars, auditHist,
                   adminVars, pwVars, faults>>

\* deleteUser is answered and handleDelete resumes: onRefresh(), or the alert
\* of the catch.
DeleteReply(e) ==
    /\ mgmt[e].kind = "delete" /\ mgmt[e].pc = "delete"
    /\ \E fail \in BOOLEAN :
        /\ Outcome(fail)
        /\ db_users' = DeleteUser(db_users, mgmt[e].nip, fail)
        /\ IF fail
           THEN /\ mgmt' = [mgmt EXCEPT ![e].pc = "fail", ![e].viewLive = FALSE]
                /\ alert' = [alert EXCEPT ![mgmt[e].tab] = UmAlerts.notDeleted]
                /\ UNCHANGED <<fetch, loading>>
           ELSE /\ mgmt' = [mgmt EXCEPT ![e].pc = "ok", ![e].viewLive = FALSE]
                /\ FetchData(mgmt[e].tab)
                /\ UNCHANGED alert
    /\ UNCHANGED <<now, download, daily_token, dateUnique, db_attendances, sessionVars, users,
                   attendances, tokVars, tokHist, view, token_ok, entry, formLoading,
                   opener, subVars, reportVars, auditVars, auditHist, adminVars, pwVars,
                   nmgmt>>

\* What the store did with the row an import sent: the import's record of it.
RowResult(user, before, after) == [nip |-> user.nip, created |-> after # before]

\* handleImport counting the row before its addUser is awaited.
CountRow_BeforeAwait(count, thrown) == count + 1

\* The count after a row: count++ follows the await inside the try.
CountRow(count, thrown) == IF thrown THEN count ELSE count + 1

\* 'Import CSV' with a file chosen: handleImport and reader.onload up to the
\* first await; a file without rows is over at once.
HandleImport(t, file, rs) ==
    /\ UsersShown(t)
    /\ LET lines == Split(file, "\n")
           i == NextRow(lines, 2)
       IN  IF i > Len(lines)
           THEN /\ alert' = [alert EXCEPT ![t] = ImportAlert(0)]
                /\ FetchData(t)
                /\ UNCHANGED mgmtVars
           ELSE /\ nmgmt < MaxEdits
                /\ nmgmt' = nmgmt + 1
                /\ mgmt' = [mgmt EXCEPT ![nmgmt + 1] =
                              [NoEdit EXCEPT !.kind = "import", !.tab = t, !.pc = "insert",
                                             !.user = UserOfRow(Row(lines[i]),
                                                                GeneratePassword(rs)),
                                             !.lines = lines, !.i = i, !.viewLive = TRUE]]
                /\ alert' = [alert EXCEPT ![t] = ""]
                /\ UNCHANGED <<fetch, loading>>
    /\ UNCHANGED <<now, download, storeVars, sessionVars, users, attendances, tokVars, tokHist, view,
                   token_ok, entry, formLoading, opener, subVars, reportVars, auditVars,
                   auditHist, adminVars, pwVars, faults>>

\* addUser is answered for a row and the loop resumes: count++ or the empty
\* catch, then the next row's addUser, or the alert and onRefresh() after the
\* last line.
ImportReply(e, rs) ==
    /\ mgmt[e].kind = "import" /\ mgmt[e].pc = "insert"
    /\ \E fail \in BOOLEAN :
        LET t == mgmt[e].tab
            lines == mgmt[e].lines
            added == AddUser(db_users, mgmt[e].user, fail)
            count == CountRow(mgmt[e].count, added.thrown)
            results == Append(mgmt[e].results,
                              RowResult(mgmt[e].user, db_users, added.table))
            i == NextRow(lines, mgmt[e].i + 1)
        IN  /\ Outcome(fail)
            /\ db_users' = added.table
            /\ IF i > Len(lines)
               THEN /\ mgmt' = [mgmt EXCEPT ![e].pc = "done", ![e].count = count,
                                            ![e].results = results, ![e].i = i,
                                            ![e].viewLive = FALSE]
                    /\ alert' = [alert EXCEPT ![t] = ImportAlert(count)]
                    /\ FetchData(t)
               ELSE /\ mgmt' = [mgmt EXCEPT ![e].count = count, ![e].results = results,
                                            ![e].i = i,
                                            ![e].user = UserOfRow(Row(lines[i]),
                                                                  GeneratePassword(rs))]
                    /\ UNCHANGED <<alert, fetch, loading>>
    /\ UNCHANGED <<now, download, daily_token, dateUnique, db_attendances, sessionVars, users,
                   attendances, tokVars, tokHist, view, token_ok, entry, formLoading,
                   opener, subVars, reportVars, auditVars, auditHist, adminVars, pwVars,
                   nmgmt>>

----------------------------------------------------------------------------
(* Initial states *)

\* The admin dashboard, the password page and the user management as they
\* mount, and no call of theirs made yet.
NoEdits ==
    /\ adminView = [t \in Tabs |-> "dashboard"]
    /\ adminTab = [t \in Tabs |-> "daily"]
    /\ cp = [t \in Tabs |-> NoError]
    /\ pw = [k \in Changes |-> NoChange]
    /\ npw = 0
    /\ um = [t \in Tabs |-> NoUserForm]
    /\ mgmt = [e \in Edits |-> NoEdit]
    /\ nmgmt = 0

\* What every specification starts with: nothing called yet, no member page
\* state, no audit.
InitCalls ==
    /\ now = 0
    /\ db_users = SeedUsers
    /\ loginError = [t \in Tabs |-> FALSE]
    /\ tok = [c \in Calls |-> NoCall]
    /\ ncalls = 0
    /\ view = [t \in Tabs |-> "menu"]
    /\ token_ok = [t \in Tabs |-> FALSE]
    /\ entry = [t \in Tabs |-> NoEntry]
    /\ formLoading = [t \in Tabs |-> FALSE]
    /\ opener = [t \in Tabs |-> NoOpener]
    /\ alert = [t \in Tabs |-> ""]
    /\ subs = [s \in Submits |-> NoSubmit]
    /\ nsubs = 0
    /\ selectedDate = [t \in Tabs |-> NoDate]
    /\ selectedRecord = [t \in Tabs |-> NoRecord]
    /\ commentInput = [t \in Tabs |-> <<>>]
    /\ audits = [a \in Audits |-> NoAudit]
    /\ naudits = 0
    /\ overlapped = {}
    /\ issued = {}
    /\ raced = {}
    /\ faults = 0
    /\ download = [t \in Tabs |-> NoDownload]
    /\ NoEdits

----------------------------------------------------------------------------
(* Specification of the token service: admins opening the dashboard in     *)
(* several tabs                                                            *)

\* The admin logged in in tab t.
AdminOf(t) == SeedUsers[2 - (t % 2)]

InitToken ==
    /\ InitCalls
    /\ daily_token = <<>>
    /\ dateUnique \in BOOLEAN
    /\ db_attendances = <<>>
    /\ currentPage = [t \in Tabs |-> "admin"]
    /\ currentUser = [t \in Tabs |-> NoUser]
    /\ users = [t \in Tabs |-> SeedUsers]
    /\ attendances = [t \in Tabs |-> <<>>]
    /\ loading = [t \in Tabs |-> FALSE]
    /\ fetch = [t \in Tabs |-> NoFetch]
    /\ dailyToken = [t \in Tabs |-> "..."]
    /\ appended = <<>>
    /\ writes = <<>>

NextToken ==
    \/ \E t \in Tabs : SelectRole(t, "admin")
    \/ \E t \in Tabs : \E l \in LoginsOf(AdminOf(t)) : HandleLogin(t, l[1], l[2])
    \/ \E t \in Tabs : HandleLogout(t)
    \/ \E c \in Calls : GetDailyTokenSelect(c)
    \/ \E c \in Calls : GetDailyTokenInsert(c)
    \/ Tick

SpecToken == InitToken /\ [][NextToken]_vars

----------------------------------------------------------------------------
(* Specification of the audit trail: admins, each in a tab of their own,   *)
(* commenting on the record of an earlier check-in                         *)

\* The record of a check-in made on day 0.
SeedAttendances ==
    LET checkIn(time, position, description) ==
            [userId |-> "M001", userName |-> "Jane", date |-> 0, time |-> time,
             position |-> position, photo |-> "data:image/jpeg;base64,AAAA",
             description |-> description,
             location |-> [lat |-> Degrees(-62), lng |-> Degrees(1068)],
             comments |-> <<>>]
    IN  InsertAttendance(<<>>, checkIn(0, "Staff", "Patrol"), FALSE)

InitAudit ==
    /\ InitCalls
    /\ daily_token = <<[date |-> 0, code |-> "1000"]>>
    /\ dateUnique = TRUE
    /\ db_attendances = SeedAttendances
    /\ currentPage = [t \in Tabs |-> "admin"]
    /\ currentUser = [t \in Tabs |-> AdminOf(t)]
    /\ users = [t \in Tabs |-> SeedUsers]
    /\ attendances = [t \in Tabs |-> GetAttendances(SeedAttendances, FALSE)]
    /\ loading = [t \in Tabs |-> FALSE]
    /\ fetch = [t \in Tabs |-> NoFetch]
    /\ dailyToken = [t \in Tabs |-> "1000"]
    /\ appended = [r \in 1..Len(SeedAttendances) |-> <<>>]
    /\ writes = [r \in 1..Len(SeedAttendances) |-> <<>>]

NextAudit ==
    \/ \E t \in Tabs, d \in 0..(MaxNow \div TicksPerDay) : SelectDate(t, d)
    \/ \E t \in Tabs, i \in 1..Len(SeedAttendances) : SelectRecord(t, i)
    \/ \E t \in Tabs : ReportBack(t)
    \/ \E t \in Tabs, text \in CommentTexts : TypeComment(t, text)
    \/ \E t \in Tabs : HandleAudit(t)
    \/ \E a \in Audits : AuditReply(a)
    \/ \E t \in Tabs : Refresh(t)
    \/ \E t \in Tabs : FetchUsers(t)
    \/ \E t \in Tabs : FetchAttendances(t)

SpecAudit == InitAudit /\ [][NextAudit]_vars

----------------------------------------------------------------------------
(* Specification of the member flow: a member who logs in, validates the   *)
(* token, checks in and logs out, in one tab                               *)

\* The tabs a member uses.
MemberTabs == {1}

InitMember ==
    /\ InitCalls
    /\ daily_token = <<>>
    /\ dateUnique = TRUE
    /\ db_attendances = <<>>
    /\ currentPage = [t \in Tabs |-> "landing"]
    /\ currentUser = [t \in Tabs |-> NoUser]
    /\ users = [t \in Tabs |-> IF t \in MemberTabs THEN <<>> ELSE SeedUsers]
    /\ attendances = [t \in Tabs |-> <<>>]
    /\ loading = [t \in Tabs |-> t \in MemberTabs]
    /\ fetch = [t \in Tabs |-> IF t \in MemberTabs
                               THEN [pc |-> "users", usersData |-> <<>>]
                               ELSE NoFetch]
    /\ dailyToken = [t \in Tabs |-> "..."]
    /\ appended = <<>>
    /\ writes = <<>>

NextMember ==
    \/ \E t \in MemberTabs : FetchUsers(t)
    \/ \E t \in MemberTabs : FetchAttendances(t)
    \/ \E t \in MemberTabs : SelectRole(t, "member")
    \/ \E t \in MemberTabs : LoginBack(t)
    \/ \E t \in MemberTabs : \E l \in LoginsOf(SeedUsers[3]) : HandleLogin(t, l[1], l[2])
    \/ \E t \in MemberTabs : HandleLogout(t)
    \/ \E t \in MemberTabs, to \in {"menu", "input_token", "history", "change_password"} :
            Navigate(t, to)
    \/ \E t \in MemberTabs, input \in TokenInputs : TokenSubmit(t, input)
    \/ \E c \in Calls : GetDailyTokenSelect(c)
    \/ \E c \in Calls : GetDailyTokenInsert(c)
    \/ \E t \in MemberTabs, position \in Positions, desc \in Descriptions,
          photo \in Photos : Submit(t, position, desc, photo)
    \/ \E s \in Submits : GeoReply(s, OfficeReadings)
    \/ \E s \in Submits : SubmitReply(s)
    \/ Tick

SpecMember == InitMember /\ [][NextMember]_vars

----------------------------------------------------------------------------
(* Specification of the check-in: a member whose entry of the day's code   *)
(* has opened the form, with a geolocation provider that answers any       *)
(* number                                                                   *)

\* The validation that opened the form: the entry "1000" on day 0.
OpeningCall ==
    [NoCall EXCEPT !.tab = 1, !.caller = "TokenEntryPage", !.pc = "done", !.today = 0,
                   !.input = "1000", !.ret = "1000", !.outcome = "unlocked",
                   !.dashLive = TRUE]

InitCheckIn ==
    /\ now = 0
    /\ db_users = SeedUsers
    /\ daily_token = <<[date |-> 0, code |-> "1000"]>>
    /\ dateUnique = TRUE
    /\ db_attendances = <<>>
    /\ currentPage = [t \in Tabs |-> IF t \in MemberTabs THEN "member" ELSE "landing"]
    /\ currentUser = [t \in Tabs |-> IF t \in MemberTabs THEN SeedUsers[3] ELSE NoUser]
    /\ loginError = [t \in Tabs |-> FALSE]
    /\ users = [t \in Tabs |-> SeedUsers]
    /\ attendances = [t \in Tabs |-> <<>>]
    /\ loading = [t \in Tabs |-> FALSE]
    /\ fetch = [t \in Tabs |-> NoFetch]
    /\ tok = [c \in Calls |-> IF c = 1 THEN OpeningCall ELSE NoCall]
    /\ ncalls = 1
    /\ dailyToken = [t \in Tabs |-> "..."]
    /\ view = [t \in Tabs |-> IF t \in MemberTabs THEN "attend" ELSE "menu"]
    /\ token_ok = [t \in Tabs |-> t \in MemberTabs]
    /\ entry = [t \in Tabs |-> NoEntry]
    /\ formLoading = [t \in Tabs |-> FALSE]
    /\ opener = [t \in Tabs |-> IF t \in MemberTabs THEN 1 ELSE NoOpener]
    /\ alert = [t \in Tabs |-> ""]
    /\ subs = [s \in Submits |-> NoSubmit]
    /\ nsubs = 0
    /\ selectedDate = [t \in Tabs |-> NoDate]
    /\ selectedRecord = [t \in Tabs |-> NoRecord]
    /\ commentInput = [t \in Tabs |-> <<>>]
    /\ audits = [a \in Audits |-> NoAudit]
    /\ naudits = 0
    /\ overlapped = {}
    /\ appended = <<>>
    /\ writes = <<>>
    /\ issued = {[date |-> 0, code |-> "1000"]}
    /\ raced = {}
    /\ faults = 0
    /\ download = [t \in Tabs |-> NoDownload]
    /\ NoEdits

NextCheckIn ==
    \/ \E t \in MemberTabs, position \in Positions, desc \in Descriptions,
          photo \in Photos : Submit(t, position, desc, photo)
    \/ \E s \in Submits : GeoReply(s, GeoReadings)
    \/ \E s \in Submits : SubmitReply(s)
    \/ \E t \in MemberTabs : FetchUsers(t)
    \/ \E t \in MemberTabs : FetchAttendances(t)
    \/ \E t \in MemberTabs, to \in {"menu", "input_token", "history"} : Navigate(t, to)
    \/ \E t \in MemberTabs, input \in TokenInputs : TokenSubmit(t, input)
    \/ \E c \in Calls : GetDailyTokenSelect(c)
    \/ \E c \in Calls : GetDailyTokenInsert(c)

SpecCheckIn == InitCheckIn /\ [][NextCheckIn]_vars

----------------------------------------------------------------------------
(* Specification of the password change: the member M001 logged in from    *)
(* two tabs                                                                 *)

InitPassword ==
    /\ InitCalls
    /\ daily_token = <<>>
    /\ dateUnique = TRUE
    /\ db_attendances = <<>>
    /\ currentPage = [t \in Tabs |-> "member"]
    /\ currentUser = [t \in Tabs |-> NoUser]
    /\ users = [t \in Tabs |-> SeedUsers]
    /\ attendances = [t \in Tabs |-> <<>>]
    /\ loading = [t \in Tabs |-> FALSE]
    /\ fetch = [t \in Tabs |-> NoFetch]
    /\ dailyToken = [t \in Tabs |-> "..."]
    /\ appended = <<>>
    /\ writes = <<>>

NextPassword ==
    \/ \E t \in Tabs : \E l \in LoginsOf(SeedUsers[3]) : HandleLogin(t, l[1], l[2])
    \/ \E t \in Tabs, to \in {"menu", "change_password"} : Navigate(t, to)
    \/ \E t \in Tabs, oldPass \in PasswordInputs, newPass \in PasswordInputs,
          confirmPass \in PasswordInputs :
            ChangePasswordSubmit(t, oldPass, newPass, confirmPass)
    \/ \E k \in Changes : ChangePasswordReply(k)
    \/ \E t \in Tabs : FetchUsers(t)
    \/ \E t \in Tabs : FetchAttendances(t)

SpecPassword == InitPassword /\ [][NextPassword]_vars

----------------------------------------------------------------------------
(* Specification of the user directory: the admin A001 managing the users  *)
(* in one tab, the member login page open in another                       *)

InitDirectory ==
    /\ InitCalls
    /\ daily_token = <<[date |-> 0, code |-> "1000"]>>
    /\ dateUnique = TRUE
    /\ db_attendances = SeedAttendances
    /\ currentPage = [t \in Tabs |-> IF t = 1 THEN "admin" ELSE "member"]
    /\ currentUser = [t \in Tabs |-> IF t = 1 THEN SeedUsers[1] ELSE NoUser]
    /\ users = [t \in Tabs |-> SeedUsers]
    /\ attendances = [t \in Tabs |-> GetAttendances(SeedAttendances, FALSE)]
    /\ loading = [t \in Tabs |-> FALSE]
    /\ fetch = [t \in Tabs |-> NoFetch]
    /\ dailyToken = [t \in Tabs |-> IF t = 1 THEN "1000" ELSE "..."]
    /\ appended = [r \in 1..Len(SeedAttendances) |-> <<>>]
    /\ writes = [r \in 1..Len(SeedAttendances) |-> <<>>]

NextDirectory ==
    \/ \E t \in Tabs, to \in {"daily", "users"} : SetTab(t, to)
    \/ \E t \in Tabs : ToggleAddMode(t)
    \/ \E t \in Tabs : DismissGenPass(t)
    \/ \E t \in Tabs, newUser \in NewUsers, rs \in PasswordSamples : HandleAdd(t, newUser, rs)
    \/ \E e \in Edits : AddReply(e)
    \/ \E t \in Tabs : \E i \in DOMAIN users[t], confirmed \in BOOLEAN :
            HandleDelete(t, i, confirmed)
    \/ \E e \in Edits : DeleteReply(e)
    \/ \E t \in Tabs, file \in CsvFiles, rs \in PasswordSamples : HandleImport(t, file, rs)
    \/ \E e \in Edits, rs \in PasswordSamples : ImportReply(e, rs)
    \/ \E t \in Tabs : \E l \in LoginsOf(SeedUsers[3]) : HandleLogin(t, l[1], l[2])
    \/ \E t \in Tabs : FetchUsers(t)
    \/ \E t \in Tabs : FetchAttendances(t)

SpecDirectory == InitDirectory /\ [][NextDirectory]_vars

----------------------------------------------------------------------------
(* Specification of the session: one tab in which a member or an admin     *)
(* picks a role, logs in, changes the password and logs out                *)

InitSession ==
    /\ InitCalls
    /\ daily_token = <<[date |-> 0, code |-> "1000"]>>
    /\ dateUnique = TRUE
    /\ db_attendances = <<>>
    /\ currentPage = [t \in Tabs |-> "landing"]
    /\ currentUser = [t \in Tabs |-> NoUser]
    /\ users = [t \in Tabs |-> SeedUsers]
    /\ attendances = [t \in Tabs |-> <<>>]
    /\ loading = [t \in Tabs |-> FALSE]
    /\ fetch = [t \in Tabs |-> NoFetch]
    /\ dailyToken = [t \in Tabs |-> "..."]
    /\ appended = <<>>
    /\ writes = <<>>

NextSession ==
    \/ \E t \in MemberTabs, role \in {"member", "admin"} : SelectRole(t, role)
    \/ \E t \in MemberTabs : LoginBack(t)
    \/ \E t \in MemberTabs : \E l \in LoginsOf(SeedUsers[1]) \cup LoginsOf(SeedUsers[3]) :
            HandleLogin(t, l[1], l[2])
    \/ \E t \in MemberTabs : HandleLogout(t)
    \/ \E t \in MemberTabs, to \in {"menu", "change_password"} : Navigate(t, to)
    \/ \E t \in MemberTabs, to \in {"dashboard", "change_password"} : AdminSetView(t, to)
    \/ \E t \in MemberTabs, oldPass \in PasswordInputs, newPass \in PasswordInputs,
          confirmPass \in PasswordInputs :
            ChangePasswordSubmit(t, oldPass, newPass, confirmPass)
    \/ \E k \in Changes : ChangePasswordReply(k)
    \/ \E t \in MemberTabs : FetchUsers(t)
    \/ \E t \in MemberTabs : FetchAttendances(t)

SpecSession == InitSession /\ [][NextSession]_vars

----------------------------------------------------------------------------
(* Specification of the daily report: an admin browsing and exporting the  *)
(* records the store holds                                                 *)

\* What members and admins typed as name, position and description,
\* character by character: a word, and texts with a comma, a line break and
\* a double quote.
ReportTexts ==
    { <<"o", "k">>, <<"a", ",", "b">>, <<"a", "\n", "b">>, <<"a", "\"", "b">> }

\* The check-ins the store may hold: made on day 0 or 1, with one of the
\* texts in one of the free-text fields.
ReportRecords ==
    LET checkIn(date, name, position, description) ==
            [userId |-> "M001", userName |-> name, date |-> date, time |-> 0,
             position |-> position, photo |-> "data:image/jpeg;base64,AAAA",
             description |-> description,
             location |-> [lat |-> Degrees(-62), lng |-> Degrees(1068)],
             comments |-> <<>>]
    IN  UNION { { checkIn(date, text, <<"o", "k">>, <<"o", "k">>),
                  checkIn(date, <<"o", "k">>, text, <<"o", "k">>),
                  checkIn(date, <<"o", "k">>, <<"o", "k">>, text) } :
                date \in 0..1, text \in ReportTexts }

RECURSIVE TableOf(_)
\* The attendances table after the check-ins, in their order.
TableOf(records) ==
    IF records = <<>> THEN <<>>
    ELSE InsertAttendance(TableOf(SubSeq(records, 1, Len(records) - 1)),
                          records[Len(records)], FALSE)

\* The tab of the admin.
ReportTabs == {1}

InitReport ==
    /\ InitCalls
    /\ daily_token = <<[date |-> 0, code |-> "1000"]>>
    /\ dateUnique = TRUE
    /\ \E n \in 0..MaxRecords : \E records \in [1..n -> ReportRecords] :
            db_attendances = TableOf(records)
    /\ currentPage = [t \in Tabs |-> IF t \in ReportTabs THEN "admin" ELSE "landing"]
    /\ currentUser = [t \in Tabs |-> IF t \in ReportTabs THEN SeedUsers[1] ELSE NoUser]
    /\ users = [t \in Tabs |-> SeedUsers]
    /\ attendances = [t \in Tabs |-> GetAttendances(db_attendances, FALSE)]
    /\ loading = [t \in Tabs |-> FALSE]
    /\ fetch = [t \in Tabs |-> NoFetch]
    /\ dailyToken = [t \in Tabs |-> IF t \in ReportTabs THEN "1000" ELSE "..."]
    /\ appended = [r \in 1..Len(db_attendances) |-> <<>>]
    /\ writes = [r \in 1..Len(db_attendances) |-> <<>>]

NextReport ==
    \/ \E t \in ReportTabs, d \in 0..1 : SelectDate(t, d)
    \/ \E t \in ReportTabs, i \in 1..MaxRecords : SelectRecord(t, i)
    \/ \E t \in ReportTabs : ReportBack(t)
    \/ \E t \in ReportTabs : HandleDownloadCSV(t)

SpecReport == InitReport /\ [][NextReport]_vars

----------------------------------------------------------------------------
(* Claims about the token service *)

\* C1: every getDailyToken call made on a day returns the same code as every
\* other call made on that day (here already for runs in which no store call
\* fails): two codes issued for one date are equal.
C1_SameCodeAllDay ==
    faults = 0 =>
        \A a, b \in issued : a.date = b.date => a.code = b.code

\* C2: when two calls for a date without a token both read 'absent' before
\* either insert, the store enforces the unique date key and no store call
\* fails, then once both have returned the store holds exactly one token for
\* the date and both returned that code.
C2_LoserRefetches ==
    (dateUnique /\ faults = 0) =>
        \A p, q \in raced :
            (/\ p # q
             /\ tok[p].pc = "done" /\ tok[q].pc = "done"
             /\ tok[p].today = tok[q].today)
            => /\ Len(TokenRows(daily_token, tok[p].today)) = 1
               /\ tok[p].ret = TokenRows(daily_token, tok[p].today)[1].code
               /\ tok[q].ret = TokenRows(daily_token, tok[p].today)[1].code

----------------------------------------------------------------------------
(* Claims about the audit trail *)

\* The comment a handleAudit call adds to the sequence it read.
AddedBy(a) == audits[a].updated[Len(audits[a].updated)]

\* The elements of a sequence.
Range(s) == {s[i] : i \in DOMAIN s}

\* C3: append-only for calls made one after the other: of a record on which
\* no handleAudit call was made while another was in flight, the stored
\* comments are exactly the comments of the successful calls, in call order.
C3_AppendOnly ==
    \A r \in DOMAIN appended :
        r \notin overlapped => StoredComments(db_attendances, r) = appended[r]

\* C4: last writer wins: when two calls on a record read the same comments
\* sequence and both writes succeed, then after the later of the two writes
\* the stored sequence is the sequence read followed by the later writer's
\* comment alone, so that it holds only one of the two new comments.
C4_LastWriterWins ==
    \A a, b \in Audits :
        (/\ a # b
         /\ audits[a].status = "ok" /\ audits[b].status = "ok"
         /\ audits[a].recordId = audits[b].recordId
         /\ audits[a].read = audits[b].read
         /\ writes[audits[a].recordId][Len(writes[audits[a].recordId])] = a)
        => /\ StoredComments(db_attendances, audits[a].recordId)
                = Append(audits[b].read, AddedBy(a))
           /\ Len(StoredComments(db_attendances, audits[a].recordId))
                = Len(audits[b].read) + 1

\* Witness of C4: two successful calls that read the same sequence and added
\* different comments, of which the store holds one and not the other.
C4_LostComment ==
    \E a, b \in Audits :
        /\ a # b
        /\ audits[a].status = "ok" /\ audits[b].status = "ok"
        /\ audits[a].recordId = audits[b].recordId
        /\ audits[a].read = audits[b].read
        /\ AddedBy(a) # AddedBy(b)
        /\ AddedBy(a) \in Range(StoredComments(db_attendances, audits[a].recordId))
        /\ AddedBy(b) \notin Range(StoredComments(db_attendances, audits[a].recordId))

\* C5: every step leaves the stored comments of every record either as they
\* were or as they were followed by exactly one new comment.
C5_WriteKeepsStored ==
    [][\A i \in DOMAIN db_attendances :
          LET old == db_attendances[i].comments
              new == db_attendances'[i].comments
          IN  \/ new = old
              \/ /\ Len(new) = Len(old) + 1
                 /\ SubSeq(new, 1, Len(old)) = old]_vars

----------------------------------------------------------------------------
(* Claims about the member flow *)

\* The code the store holds for a day, when it holds exactly one; else Null.
CodeOfDay(day) == SingleCode(daily_token, day, FALSE)

\* The validation c unlocked the form in tab t by an entry equal to the code
\* the store holds for the day of the validation.
UnlockedBy(t, c) ==
    /\ c \in Calls
    /\ tok[c].tab = t
    /\ tok[c].caller = "TokenEntryPage"
    /\ tok[c].outcome = "unlocked"
    /\ tok[c].input = CodeOfDay(tok[c].today)

\* C6: as long as no store call failed: the check-in form is open only in a
\* session in which an entry equal to the day's code was validated, every
\* submit comes from a form such a validation opened, and no entry equal to
\* the day's code is turned down.
C6_TokenGatesForm ==
    faults = 0 =>
        /\ \A t \in Tabs :
              (currentPage[t] = "member" /\ view[t] = "attend")
              => /\ currentUser[t] # NoUser
                 /\ UnlockedBy(t, opener[t])
                 /\ tok[opener[t]].dashLive
        /\ \A s \in Submits :
              subs[s].pc # "new" => UnlockedBy(subs[s].tab, subs[s].opener)
        /\ \A c \in Calls :
              tok[c].outcome = "rejected" => tok[c].input # CodeOfDay(tok[c].today)

\* The submits that created a record.
Created == {s \in Submits : subs[s].pc = "ok"}

\* C7: the unlock is single-use.  Every record was created from a form that a
\* successful validation of the same tab opened, and no validation opened the
\* form for two records, so that a session creates at most as many records
\* as it has successful validations; and the step in which a submit succeeds
\* clears the session flag and, the dashboard still mounted, shows the menu.
C7_SingleUseUnlock ==
    /\ [](\A s \in Created :
            /\ subs[s].opener \in Calls
            /\ tok[subs[s].opener].tab = subs[s].tab
            /\ tok[subs[s].opener].outcome = "unlocked"
            /\ \A r \in Created : subs[r].opener = subs[s].opener => r = s)
    /\ [][\A s \in Submits :
            (subs[s].pc = "insert" /\ subs'[s].pc = "ok")
            => /\ ~token_ok'[subs[s].tab]
               /\ (subs[s].dashLive => view'[subs[s].tab] = "menu")]_vars

\* Witness of C7: two records created in one session that is still logged in,
\* each from a form opened by a validation of its own.
C7_TwoCheckIns ==
    \E s, r \in Created :
        /\ s # r
        /\ subs[s].tab = subs[r].tab
        /\ subs[s].dashLive /\ subs[r].dashLive
        /\ subs[s].opener # subs[r].opener
        /\ tok[subs[s].opener].outcome = "unlocked"
        /\ tok[subs[r].opener].outcome = "unlocked"

\* C8: the step in which getDailyToken resolves for a validation accepts the
\* entry (sets the session flag and, the dashboard still mounted, opens the
\* form) if the entry equals the code the call returned, and otherwise
\* leaves flag, view and form as they were and shows the error; how often
\* and by whom a code was validated before plays no part.
C8_ValidateIffEqual ==
    [][\A c \in Calls :
          (tok[c].caller = "TokenEntryPage" /\ tok[c].pc # "done" /\ tok'[c].pc = "done")
          => LET t == tok[c].tab
             IN  IF tok[c].input = tok'[c].ret
                 THEN /\ token_ok'[t]
                      /\ (tok[c].dashLive
                          => (view'[t] = "attend" /\ tok'[c].outcome = "unlocked"))
                 ELSE /\ tok'[c].outcome = "rejected"
                      /\ UNCHANGED <<token_ok, view, opener, formLoading>>
                      /\ (tok[c].pageLive => entry'[t].error)]_vars

\* Witness of C8: two validations of one day, with the same entry, that both
\* unlocked the form.
C8_ValidatedTwice ==
    \E c, d \in Calls :
        /\ c # d
        /\ tok[c].outcome = "unlocked" /\ tok[d].outcome = "unlocked"
        /\ tok[c].today = tok[d].today
        /\ tok[c].input = tok[d].input
        /\ tok[c].input = tok[c].ret /\ tok[d].input = tok[d].ret

\* The record list holds for the submit s: a record with the values submitted
\* and no comments.
Listed(list, s) ==
    \E i \in DOMAIN list :
        /\ list[i].userId = subs[s].user.nip
        /\ list[i].userName = subs[s].user.name
        /\ list[i].date = subs[s].date
        /\ list[i].time = subs[s].time
        /\ list[i].position = subs[s].position
        /\ list[i].photo = subs[s].photo
        /\ list[i].description = subs[s].description
        /\ list[i].location = subs[s].location
        /\ list[i].comments = <<>>

C10_IncompleteSubmission ==
    /\ [](/\ \A s \in Submits :
               subs[s].pc # "new"
               => (subs[s].position # "" /\ subs[s].description # "" /\ subs[s].photo # "")
          /\ \A i \in DOMAIN db_attendances :
               /\ db_attendances[i].position # ""
               /\ db_attendances[i].description # ""
               /\ db_attendances[i].photo # "")
    /\ [][\A t \in Tabs, position \in Positions, desc \in Descriptions, photo \in Photos :
            (/\ position = "" \/ desc = "" \/ photo = ""
             /\ Submit(t, position, desc, photo))
            => /\ alert'[t] = AlertIncomplete
               /\ view'[t] = "attend"
               /\ UNCHANGED <<db_attendances, token_ok, view, formLoading, opener, subs,
                              nsubs>>]_vars

\* Witness of C10: the 'incomplete' alert is up on an open form whose session
\* flag is set, and the store holds no record.
C10_AlertShown ==
    \E t \in Tabs :
        /\ alert[t] = AlertIncomplete
        /\ view[t] = "attend"
        /\ token_ok[t]
        /\ db_attendances = <<>>

----------------------------------------------------------------------------
(* Claims about the check-in form's location *)

\* A location of two finite numbers within the coordinate range: latitude
\* within 90 degrees and longitude within 180 degrees of zero.
ValidLocation(location) ==
    /\ IsFinite(location.lat) /\ IsFinite(location.lng)
    /\ location.lat.tenths \in -900..900
    /\ location.lng.tenths \in -1800..1800

\* C11: a record is stored only with a location of two finite numbers within
\* the coordinate range, and a submit whose reading is not such a location
\* neither reaches the store nor succeeds.
C11_LocationValidated ==
    /\ \A i \in DOMAIN db_attendances :
          ValidLocation([lat |-> db_attendances[i].location_lat,
                         lng |-> db_attendances[i].location_lng])
    /\ \A s \in Submits :
          subs[s].pc \in {"insert", "ok"} => ValidLocation(subs[s].location)

----------------------------------------------------------------------------
(* Claims about the password change *)

\* The password the store holds for a user, Null when it holds no such user.
StoredPassword(table, nip) ==
    First(SelectSeq(table, LAMBDA u : u.nip = nip), [password |-> Null]).password

\* C12: a password change whose new password is shorter than 4 characters,
\* or whose old password is not the password stored for the user, is
\* rejected with an error: no update is sent to the store, and the stored
\* password and the session's copy of the user stay as they were; no update
\* ever carries a new password shorter than 4 characters.
C12_RejectedUnchanged ==
    /\ [](\A k \in Changes :
            pw[k].pc # "new" => Len(pw[k].newPass) >= MinPasswordLength)
    /\ [][\A t \in Tabs, oldPass \in PasswordInputs, newPass \in PasswordInputs,
             confirmPass \in PasswordInputs :
            (/\ ChangePasswordSubmit(t, oldPass, newPass, confirmPass)
             /\ \/ Len(newPass) < MinPasswordLength
                \/ oldPass # StoredPassword(db_users, currentUser[t].nip))
            => /\ cp'[t].error # ""
               /\ ~cp'[t].loading
               /\ UNCHANGED <<db_users, currentUser, pw, npw>>]_vars

\* C13: with the three fields filled in, a password change gets past the
\* old-password check exactly if the old password typed is the password the
\* store holds for the user at that moment; otherwise it is turned down as
\* 'wrong old password' and no update is sent.
C13_OldPasswordChecked ==
    [][\A t \in Tabs, oldPass \in PasswordInputs, newPass \in PasswordInputs,
          confirmPass \in PasswordInputs :
         (/\ ChangePasswordSubmit(t, oldPass, newPass, confirmPass)
          /\ oldPass # "" /\ newPass # "" /\ confirmPass # "")
         => IF oldPass = StoredPassword(db_users, currentUser[t].nip)
            THEN cp'[t].error # CpErrors.wrongOld
            ELSE /\ cp'[t].error = CpErrors.wrongOld
                 /\ UNCHANGED <<pw, npw>>]_vars

----------------------------------------------------------------------------
(* Claims about store failures *)

\* C15: a step in which a store call fails leaves its operation failed: a
\* fetchData whose select of the users failed does not go on as if the
\* select had answered, one whose select of the attendances failed installs
\* no list in place of the one held, and a getDailyToken call whose select
\* or insert failed does not return a code.
C15_FailuresSurface ==
    [][/\ \A t \in Tabs :
            /\ (faults' > faults /\ fetch[t].pc = "users" /\ fetch'[t] # fetch[t])
               => fetch'[t] = NoFetch
            /\ (faults' > faults /\ fetch[t].pc = "attendances" /\ fetch'[t] # fetch[t])
               => attendances'[t] = attendances[t]
       /\ \A c \in Calls :
            (/\ tok[c].pc = "insert" /\ tok'[c].pc = "done"
             /\ faults' > faults \/ ~tok[c].absent)
            => tok'[c].ret = Null]_vars

----------------------------------------------------------------------------
(* Claims about the comments that are turned down *)

\* C16: a handleAudit call for a record id that is not found in the list of
\* records raises a failure message and sends no write to the store.
C16_RecordNotFound ==
    [][\A t \in Tabs :
         (/\ HandleAudit(t)
          /\ commentInput[t] # <<>>
          /\ FindRecord(attendances[t], selectedRecord[t]).id = NoRecord)
         => /\ alert'[t] # ""
            /\ UNCHANGED <<audits, naudits, db_attendances>>]_vars

\* text.trim() === '': the text is empty or made of spaces only.
Blank(text) == \A i \in DOMAIN text : text[i] = " "

\* C17: a click on 'Kirim' with a blank text sends no write, and no record
\* ever holds a comment with a blank text.
C17_EmptyComment ==
    /\ [](\A i \in DOMAIN db_attendances :
            \A j \in DOMAIN db_attendances[i].comments :
                ~Blank(db_attendances[i].comments[j].text))
    /\ [][\A t \in Tabs :
            (HandleAudit(t) /\ Blank(commentInput[t]))
            => UNCHANGED <<audits, naudits, db_attendances>>]_vars

----------------------------------------------------------------------------
(* Claims about the user directory *)

\* C14: a login succeeds only with an id, a password and a role that the
\* store holds for one user at that moment; a user removed from the store
\* does not log in.
C14_AuthenticatesStoredUser ==
    [][\A t \in Tabs :
         (currentUser[t] = NoUser /\ currentUser'[t] # NoUser)
         => \E i \in DOMAIN db_users :
                /\ db_users[i].nip = currentUser'[t].nip
                /\ db_users[i].password = currentUser'[t].password
                /\ db_users[i].role = currentUser'[t].role]_vars

\* The rows an import has seen the store create.
CreatedRows(edit) == {i \in DOMAIN edit.results : edit.results[i].created}

\* C18: an import sends every row of its file to the store, whatever became
\* of the rows before it; a row is created unless its nip is taken or the
\* store call fails; the count the import reports is the number of rows the
\* store created.
C18_BulkProvision ==
    /\ [](\A e \in Edits :
            mgmt[e].kind = "import"
            => /\ mgmt[e].count = Cardinality(CreatedRows(mgmt[e]))
               /\ mgmt[e].pc = "done"
                  => Len(mgmt[e].results) = Cardinality(RowLines(mgmt[e].lines)))
    /\ [][\A e \in Edits :
            (mgmt[e].kind = "import" /\ mgmt'[e].results # mgmt[e].results)
            => /\ \/ KeyTaken(db_users', mgmt[e].user.nip)
                  \/ faults' = faults + 1
               /\ mgmt'[e].pc = "done"
                  => alert'[mgmt[e].tab] =
                        ImportAlert(Cardinality(CreatedRows(mgmt'[e])))]_vars

\* An import is over that went on after a row the store refused and created
\* the row that followed.
C18_SkippedThenCreated ==
    \E e \in Edits :
        /\ mgmt[e].kind = "import" /\ mgmt[e].pc = "done"
        /\ Len(mgmt[e].results) = 2
        /\ ~mgmt[e].results[1].created /\ mgmt[e].results[2].created
        /\ mgmt[e].count = 1

\* C19: no two users of the store have the same nip, and adding a user whose
\* nip the store holds leaves the users as they are and is answered with the
\* alert of the failure.
C19_DuplicateIdentifier ==
    /\ [](\A i, j \in DOMAIN db_users : db_users[i].nip = db_users[j].nip => i = j)
    /\ [][\A e \in Edits :
            (AddReply(e) /\ KeyTaken(db_users, mgmt[e].user.nip))
            => /\ db_users' = db_users
               /\ alert'[mgmt[e].tab] = UmAlerts.notAdded]_vars

\* An add with a nip the store held was refused, no store call having failed.
C19_DuplicateRefused ==
    /\ faults = 0
    /\ \E e \in Edits :
        /\ mgmt[e].kind = "add" /\ mgmt[e].pc = "fail"
        /\ KeyTaken(db_users, mgmt[e].user.nip)

\* C20: a delete removes the users with the nip from the store and nothing
\* else: the other users, the attendance records (those of the deleted user
\* among them) and the tokens are as before.
C20_RemoveKeepsRecords ==
    [][\A e \in Edits :
         DeleteReply(e)
         => /\ db_attendances' = db_attendances
            /\ daily_token' = daily_token
            /\ db_users' \in {db_users,
                              SelectSeq(db_users, LAMBDA u : u.nip # mgmt[e].nip)}
            /\ faults' = faults => ~KeyTaken(db_users', mgmt[e].nip)]_vars

\* The user M001 was deleted and the record of their check-in is stored.
C20_OrphanedRecord ==
    /\ ~KeyTaken(db_users, "M001")
    /\ \E e \in Edits : mgmt[e].kind = "delete" /\ mgmt[e].pc = "ok" /\ mgmt[e].nip = "M001"
    /\ \E i \in DOMAIN db_attendances :
        /\ db_attendances[i].user_id = "M001"
        /\ db_attendances[i] = SeedAttendances[i]

----------------------------------------------------------------------------
(* Claims about codes, dates and sessions *)

\* The strings of four decimal digits that stand for 1000 .. 9999.
FourDigitCodes == {NumToString(n) : n \in CodeBase..(CodeBase + CodeSpan - 1)}

\* C24: every code a getDailyToken call returned is a string of exactly four
\* decimal digits, the numeral of a number in 1000..9999.
C24_FourDigitCode ==
    \A i \in issued : Len(i.code) = 4 /\ i.code \in FourDigitCodes

\* Calls have returned the smallest and the largest code that can be drawn.
C24_BothEndsIssued ==
    /\ \E i \in issued : i.code = "1000"
    /\ \E i \in issued : i.code = "9999"

\* C25: every record created carries the date of the day on which the
\* validation that opened its form was made.
C25_UnlockOfTheDay ==
    \A s \in Created :
        /\ subs[s].opener \in Calls
        /\ tok[subs[s].opener].today = subs[s].date

\* C23: what a getAttendances call returns to fetchData is every record the
\* store holds, a record created later before one created earlier.
C23_ListNewestFirst ==
    [][\A t \in Tabs :
         (fetch[t].pc = "attendances" /\ fetch'[t] = NoFetch)
         => LET list == attendances'[t]
                created(id) ==
                    First(SelectSeq(db_attendances, LAMBDA row : row.id = id),
                          [created_at |-> 0]).created_at
            IN  /\ {list[i].id : i \in DOMAIN list}
                     = {db_attendances[i].id : i \in DOMAIN db_attendances}
                /\ Len(list) = Len(db_attendances)
                /\ \A i, j \in DOMAIN list :
                      i < j => created(list[i].id) > created(list[j].id)]_vars

\* C26: a user is logged in only on the page of their role, 'member' or
\* 'admin', and a logout leaves no user, the landing page and no session
\* flag.
C26_DashboardOfOwnRole ==
    /\ [](\A t \in Tabs :
            currentUser[t] # NoUser
            => /\ currentPage[t] \in {"member", "admin"}
               /\ currentUser[t].role = currentPage[t])
    /\ [][\A t \in Tabs :
            HandleLogout(t)
            => /\ currentUser'[t] = NoUser
               /\ currentPage'[t] = "landing"
               /\ ~token_ok'[t]]_vars

----------------------------------------------------------------------------
(* Claims about the daily report *)

\* C21: the date cards and the lists behind them partition the records of a
\* tab: every record is in the list of its own date and of no other, no date
\* shown has an empty list, and the count on a date's card is the number of
\* records of that date.
C21_GroupByDate ==
    \A t \in Tabs :
        LET list == attendances[t]
            dates == UniqueDates(list)
            ids(records) == {records[i].id : i \in DOMAIN records}
        IN  /\ \A i \in DOMAIN list :
                  {d \in dates : list[i].id \in ids(DayRecords(list, d))} = {list[i].date}
            /\ \A d \in dates :
                  /\ DayRecords(list, d) # <<>>
                  /\ Cardinality(ids(DayRecords(list, d))) = Len(DayRecords(list, d))
                  /\ DateCount(list, d) = Cardinality({i \in DOMAIN list : list[i].date = d})

\* The list of a date is shown, in a report of two dates with one record each.
C21_TwoDates ==
    \E t \in Tabs :
        /\ selectedDate[t] # NoDate
        /\ UniqueDates(attendances[t]) = {0, 1}
        /\ DateCount(attendances[t], selectedDate[t]) = 1

\* What the browser saves for a data: link: the text after the media type, its
\* percent-escapes decoded.
SavedText(href) ==
    [i \in 1..(Len(href) - 1) |->
        IF \E k \in DOMAIN UriEscapes : UriEscapes[k][2] = href[i + 1]
        THEN UriEscapes[CHOOSE k \in DOMAIN UriEscapes : UriEscapes[k][2] = href[i + 1]][1]
        ELSE href[i + 1]]

RECURSIVE ScanField(_, _, _, _)
\* The field a CSV reader finds in doc from position i on, and the position
\* of the comma or line break that ends it: a field that begins with a double
\* quote runs to the closing quote, two quotes in it standing for one.
ScanField(doc, i, mode, text) ==
    IF i > Len(doc) THEN [text |-> text, next |-> i]
    ELSE IF mode = "quoted"
    THEN IF doc[i] # "\"" THEN ScanField(doc, i + 1, "quoted", text \o doc[i])
         ELSE IF i < Len(doc) /\ doc[i + 1] = "\""
         THEN ScanField(doc, i + 2, "quoted", text \o "\"")
         ELSE ScanField(doc, i + 1, "closed", text)
    ELSE IF doc[i] \in {",", "\n"} THEN [text |-> text, next |-> i]
    ELSE IF doc[i] = "\"" /\ mode = "start" THEN ScanField(doc, i + 1, "quoted", text)
    ELSE ScanField(doc, i + 1, "plain", text \o doc[i])

RECURSIVE ScanRow(_, _, _)
\* The row of fields from position i on, commas separating the fields, and the
\* position after the line break that ends it.
ScanRow(doc, i, row) ==
    LET field == ScanField(doc, i, "start", "")
    IN  IF field.next > Len(doc) \/ doc[field.next] = "\n"
        THEN [row |-> Append(row, field.text), next |-> field.next + 1]
        ELSE ScanRow(doc, field.next + 1, Append(row, field.text))

RECURSIVE ScanRows(_, _, _)
\* The rows from position i on.
ScanRows(doc, i, rows) ==
    LET row == ScanRow(doc, i, <<>>)
    IN  IF row.next > Len(doc) THEN Append(rows, row.row)
        ELSE ScanRows(doc, row.next, Append(rows, row.row))

\* The rows of fields of a CSV document.
ParseCsv(doc) == ScanRows(doc, 1, <<>>)

\* The seven fields of a record, as texts.
FieldsOf(d) ==
    << d.userId, Join(d.userName), NumToString(d.date), NumToString(d.time),
       Join(d.position), Join(d.description),
       NumberText(d.location.lat) \o ", " \o NumberText(d.location.lng) >>

\* C22: the file an export saved, read as CSV, is the header row followed by
\* one row of seven fields per exported record, in their order, with the
\* record's identifier, name, date, time, position, description and location.
C22_ExportRoundTrips ==
    \A t \in Tabs :
        download[t] # NoDownload
        => ParseCsv(SavedText(download[t].href))
             = << <<"NIP", "Nama", "Tanggal", "Jam", "Jabatan", "Keterangan", "Lokasi">> >>
               \o [i \in 1..Len(download[t].data) |-> FieldsOf(download[t].data[i])]

====
